---- MODULE Spec2Model ----
(***************************************************************************)
(* MedMate client: the request executor and API gateway (lib/api.ts), the  *)
(* session/auth coordinator (contexts/AuthContext.tsx), the credit         *)
(* purchase flow (components/BuyCreditsModal.tsx) and the Diagnose page    *)
(* (pages/Diagnose.tsx).                                                   *)
(*                                                                         *)
(* Four specifications share the module, one per component:                *)
(*   SpecExec  one gateway call running through the executor, with time    *)
(*   Spec      the auth coordinator against the backend session            *)
(*   SpecPay   the purchase flow of the buy-credits modal                  *)
(*   SpecDiag  the Diagnose page                                           *)
(* Each leaves the other components' variables unchanged.                  *)
(***************************************************************************)
EXTENDS Integers, Sequences, FiniteSets, TLC

(***************************************************************************)
(* Bounds of the model.                                                    *)
(***************************************************************************)
\* One step of the clock, in milliseconds.
TickMs == 5000
\* The clock of a call stops advancing here (past the longest budget).
MaxClock == 100000
\* Slots for operations the user starts (slot 0 is the mount check).
MaxOps == 1
\* Processes (page loads) in one behaviour.
MaxProcs == 2

(***************************************************************************)
(*                       REQUEST EXECUTOR / GATEWAY                        *)
(***************************************************************************)
VARIABLES
    ex_method,    \* the gateway method of the current invocation
    ex_pc,        \* "idle" | "fetching" | "reading" | "resolved" | "rejected"
    ex_clock,     \* milliseconds since the invocation started
    ex_timer,     \* TRUE while the abort timer (setTimeout) is pending
    ex_status,    \* the response's status class: "none" | "2xx" | "non-2xx"
    ex_body,      \* the parsed body once read, else NoBody
    ex_result,    \* what the promise settled with
    ex_fetches,   \* fetch() calls made by the current invocation
    ex_aborted    \* TRUE when the timer aborted the fetch of this invocation

execVars == <<ex_method, ex_pc, ex_clock, ex_timer, ex_status, ex_body, ex_result,
              ex_fetches, ex_aborted>>

\* The session/auth coordinator, the browser's storage and the backend session.
VARIABLES
    user,          \* AuthProvider state `user`: NoUser (null) or the user
    loading,       \* AuthProvider state `loading`
    stored,        \* the localStorage item under STORAGE_KEY
    toast,         \* the toast shown by the last step ("" when none)
    settled,       \* the coordinator call the last step completed, if any
    ops,           \* the coordinator's asynchronous operations, by slot
    mounted,       \* the provider's mount effect has run in this process
    proc,          \* the number of the running process (page load)
    srvSession,    \* backend: the user of this browser's session cookie
    uiActed,       \* history: the user started an operation in this process
    bootAfterLogout \* history: this process started right after a successful logout

authVars == <<user, loading, stored, toast, settled, ops, mounted, proc, srvSession,
              uiActed, bootAfterLogout>>

\* The buy-credits modal, its parent's `showBuyCredits` flag and the checkout
\* script of the payment provider.
VARIABLES
    pay_isOpen,          \* prop `isOpen` (the parent's showBuyCredits)
    pay_packages,        \* state `packages`: the ids of the packages listed
    pay_loading,         \* state `loading`
    pay_error,           \* state `error`
    pay_selectedPackage, \* state `selectedPackage`
    pay_razorpay,        \* window.Razorpay is defined
    pay_scripts,         \* script elements appended by the open effect, still loading
    pay_fetching,        \* fetchPackages calls in flight
    pay_orders,          \* the handlePurchase calls in progress, by slot
    pay_toast,           \* the title of the toast shown by the last step ("" when none)
    pay_done             \* the checkout handler the last step completed, if any

payVars == <<pay_isOpen, pay_packages, pay_loading, pay_error, pay_selectedPackage,
             pay_razorpay, pay_scripts, pay_fetching, pay_orders, pay_toast, pay_done>>

\* The Diagnose page.
VARIABLES
    dg_symptoms,       \* state `symptoms`
    dg_loading,        \* state `loading`
    dg_result,         \* state `result`: NoDiagnosis (null) or a diagnosis
    dg_selectedImages, \* state `selectedImages`: the files, in order
    dg_imagePreviews,  \* state `imagePreviews`: the data URLs, in order
    dg_readers,        \* batches of FileReaders that have not all finished
    dg_showBuyCredits, \* state `showBuyCredits`
    dg_credits,        \* the credits balance last passed to updateCredits
    dg_call,           \* the diagnosis call in flight, if any
    dg_toast,          \* the toast shown by the last step
    dg_settled         \* the diagnosis attempt the last step completed, if any

diagVars == <<dg_symptoms, dg_loading, dg_result, dg_selectedImages, dg_imagePreviews,
              dg_readers, dg_showBuyCredits, dg_credits, dg_call, dg_toast, dg_settled>>

\* The Chat page.
VARIABLES
    ch_messages,       \* state `messages`: the messages shown, in order
    ch_input,          \* state `input`
    ch_loading,        \* state `loading`
    ch_showBuyCredits, \* state `showBuyCredits`
    ch_credits,        \* the credits balance last passed to updateCredits
    ch_now,            \* Date.now(), in milliseconds since the page was opened
    ch_history,        \* loadChatHistory: "idle" | "pending" | "done"
    ch_call,           \* the handleSend call in flight, if any
    ch_toast,          \* the toast shown by the last step
    ch_settled         \* the handleSend call the last step completed, if any

chatVars == <<ch_messages, ch_input, ch_loading, ch_showBuyCredits, ch_credits,
              ch_now, ch_history, ch_call, ch_toast, ch_settled>>

\* The Settings page: the account deletion controls.
VARIABLES
    st_sendingDeletionCode, \* state `sendingDeletionCode`
    st_accountCode,         \* state `accountCode`: the characters entered
    st_codeSent,            \* state `codeSent`
    st_accountDeleting,     \* state `accountDeleting`
    st_call,                \* what handleDeleteAccount awaits: "none" | "confirm" | "checkAuth"
    st_codeOk,              \* a requestAccountDeletionCode succeeded since the page was opened
    st_toast                \* the toast shown by the last step

settingsVars == <<st_sendingDeletionCode, st_accountCode, st_codeSent,
                  st_accountDeleting, st_call, st_codeOk, st_toast>>

\* The Auth page: the register form.
VARIABLES
    au_registerData,     \* state `registerData`: username, password, confirmPassword
    au_passwordStrength, \* state `passwordStrength`
    au_loading,          \* state `loading`: a register call is in flight
    au_toast             \* the toast shown by the last step

registerVars == <<au_registerData, au_passwordStrength, au_loading, au_toast>>

\* The ResetPassword page.
VARIABLES
    rp_token,            \* searchParams.get('token')
    rp_password,         \* state `password`
    rp_confirmPassword,  \* state `confirmPassword`
    rp_passwordStrength, \* state `passwordStrength`
    rp_loading,          \* state `loading`: a resetPassword call is in flight
    rp_verifying,        \* state `verifying`
    rp_tokenValid,       \* state `tokenValid`
    rp_toast             \* the toast shown by the last step

resetVars == <<rp_token, rp_password, rp_confirmPassword, rp_passwordStrength,
               rp_loading, rp_verifying, rp_tokenValid, rp_toast>>

formVars == <<settingsVars, registerVars, resetVars>>

\* The router: the page that is mounted.
VARIABLES page

pageVars == <<diagVars, chatVars, formVars, page>>

vars == <<execVars, authVars, payVars, pageVars>>

\* What an action of the executor leaves alone.
ExFrame == UNCHANGED <<authVars, payVars, pageVars>>
\* What an action of the coordinator leaves alone.
AuthFrame == UNCHANGED <<execVars, payVars, pageVars>>
\* What an action of the buy-credits modal leaves alone.
PayFrame == UNCHANGED <<execVars, authVars, pageVars>>
\* What an action of the Diagnose page leaves alone.
DiagFrame == UNCHANGED <<execVars, authVars, payVars, chatVars, formVars, page>>
\* What an action of the Chat page leaves alone.
ChatFrame == UNCHANGED <<execVars, authVars, payVars, diagVars, formVars, page>>
\* What an action of a form page leaves alone, besides the other forms.
FormFrame == UNCHANGED <<execVars, authVars, payVars, diagVars, chatVars>>

\* Messages fixed by the client code.
TimeoutMsg == "The request is taking longer than expected. Please try again."
ImageTimeoutMsg == "Image analysis timeout - please try again"
NetworkErrorMsg == "Network error occurred"
RequestFailedMsg == "Request failed"
ImageFailedMsg == "Image analysis failed"

\* Messages of the errors the browser raises (fetch, response.json()).
FailedToFetchMsg == "Failed to fetch"
AbortedMsg == "The user aborted a request."
JsonParseMsg == "Unexpected token < in JSON"

\* Error messages the backend puts in the `error` field of a JSON body.
ServerErrors == {"Insufficient credits", "Invalid credentials"}
Absent == "<absent>"
NoBody == [error |-> "<none>"]
\* A parsed JSON body, reduced to its `error` field.
Bodies == [error : ServerErrors \cup {Absent}]

\* The errors fetch() and response.json() reject with; all are Error instances.
AbortError == [name |-> "AbortError", message |-> AbortedMsg, isError |-> TRUE]
FetchTypeError == [name |-> "TypeError", message |-> FailedToFetchMsg, isError |-> TRUE]
JsonSyntaxError == [name |-> "SyntaxError", message |-> JsonParseMsg, isError |-> TRUE]
BodyErrors == {JsonSyntaxError, FetchTypeError}

\* The gateway's methods.
RequestMethods ==
    {"register", "login", "logout", "forgotPassword", "resetPassword",
     "verifyResetToken", "geocodeCity", "findNearbyHospitals",
     "getHospitalDetails", "voiceToText", "textToSpeech", "getVoiceStatus",
     "healthCheck", "getProfile", "updateProfile", "deleteChatHistory",
     "deleteDiagnosisHistory", "submitFeedback"}
TimedMethods ==
    {"checkAuth", "diagnose", "getDiagnosisHistory", "sendChatMessage",
     "getChatHistory", "uploadProfilePicture"}
Methods == RequestMethods \cup TimedMethods \cup {"diagnoseImage"}

\* The timeout budget each method passes to the executor, in milliseconds.
TimeoutOf(m) ==
    CASE m = "checkAuth" -> 5000
      [] m = "diagnose" -> 60000
      [] m = "diagnoseImage" -> 90000
      [] m \in {"getDiagnosisHistory", "sendChatMessage", "getChatHistory",
                "uploadProfilePicture"} -> 30000
      [] OTHER -> 10000

\* diagnoseImage runs its own copy of the executor; the rest share one.
ExecutorOf(m) == IF m = "diagnoseImage" THEN "diagnoseImage" ELSE "requestWithTimeout"

\* `data.error || <default>`: the message of the Error thrown for a non-2xx answer.
DefaultMsgOf(executor) ==
    IF executor = "diagnoseImage" THEN ImageFailedMsg ELSE RequestFailedMsg

HttpErrorOf(executor, body) ==
    [name |-> "Error",
     message |-> IF body.error # Absent THEN body.error ELSE DefaultMsgOf(executor),
     isError |-> TRUE]

\* The message the abort is reported with.
TimeoutMsgOf(executor) ==
    IF executor = "diagnoseImage" THEN ImageTimeoutMsg ELSE TimeoutMsg

Resolved(body) == [kind |-> "resolved", message |-> "", value |-> body]
Rejected(msg) == [kind |-> "rejected", message |-> msg, value |-> NoBody]
NoResult == [kind |-> "none", message |-> "", value |-> NoBody]

\* A mutant of CatchBlock: the AbortError test is missing.
CatchBlockNoAbortTest(executor, err) ==
    IF err.isError THEN Rejected(err.message) ELSE Rejected(NetworkErrorMsg)

\* The catch block of the executor: what the call rejects with for a thrown err.
CatchBlock(executor, err) ==
    IF err.isError
    THEN IF err.name = "AbortError"
         THEN Rejected(TimeoutMsgOf(executor))
         ELSE Rejected(err.message)
    ELSE Rejected(NetworkErrorMsg)

\* A mutant of AfterBody: the response.ok test is missing.
AfterBodyNoOkTest(executor, ok, body) == Resolved(body)

\* After `data = await response.json()`: throw for a non-2xx answer, else return.
AfterBody(executor, ok, body) ==
    IF ~ok THEN CatchBlock(executor, HttpErrorOf(executor, body))
    ELSE Resolved(body)

\* A mutant of FetchesAfter: a rejected attempt is followed by a second fetch.
FetchesAfterWithRetry(result, fetches) ==
    IF result.kind = "rejected" THEN fetches + 1 ELSE fetches

\* The fetch() calls of an invocation once an attempt has settled with
\* result: the executor returns or throws, it never calls fetch() again.
FetchesAfter(result, fetches) == fetches

\* Whether the catch block disarms the timer (diagnoseImage's does).
CatchClearsTimer(executor) == executor = "diagnoseImage"

ExInit ==
    /\ ex_method = "checkAuth"
    /\ ex_pc = "idle"
    /\ ex_clock = 0
    /\ ex_timer = FALSE
    /\ ex_status = "none"
    /\ ex_body = NoBody
    /\ ex_result = NoResult
    /\ ex_fetches = 0
    /\ ex_aborted = FALSE

ExPending == ex_pc \in {"fetching", "reading"}
ExSettled == ex_pc \in {"resolved", "rejected"}

\* A gateway method is invoked: the timer is armed and fetch() is called once.
ExInvoke(m) ==
    /\ ~ExPending
    /\ ~ex_timer
    /\ ex_method' = m
    /\ ex_pc' = "fetching"
    /\ ex_clock' = 0
    /\ ex_timer' = TRUE
    /\ ex_status' = "none"
    /\ ex_body' = NoBody
    /\ ex_result' = NoResult
    /\ ex_fetches' = 1
    /\ ex_aborted' = FALSE
    /\ ExFrame

\* Time passes, at most one tick at a time and never past the instant at which
\* an armed timer is due: the timer fires before time moves on.
ExTick ==
    /\ ExPending \/ ex_timer
    /\ ex_clock < MaxClock
    /\ ~(ex_timer /\ ex_clock >= TimeoutOf(ex_method))
    /\ ex_clock' = IF ex_timer /\ ex_clock + TickMs > TimeoutOf(ex_method)
                   THEN TimeoutOf(ex_method)
                   ELSE ex_clock + TickMs
    /\ UNCHANGED <<ex_method, ex_pc, ex_timer, ex_status, ex_body, ex_result,
                   ex_fetches, ex_aborted>>
    /\ ExFrame

\* The timer callback: controller.abort(). A pending fetch rejects with AbortError.
ExTimerFire ==
    /\ ex_timer
    /\ ex_clock >= TimeoutOf(ex_method)
    /\ ex_timer' = FALSE
    /\ IF ex_pc = "fetching"
       THEN /\ ex_pc' = "rejected"
            /\ ex_result' = CatchBlock(ExecutorOf(ex_method), AbortError)
            /\ ex_aborted' = TRUE
            /\ ex_fetches' = FetchesAfter(ex_result', ex_fetches)
       ELSE UNCHANGED <<ex_pc, ex_result, ex_aborted, ex_fetches>>
    /\ UNCHANGED <<ex_method, ex_clock, ex_status, ex_body>>
    /\ ExFrame

\* fetch() resolves with the response headers: clearTimeout, then read the body.
ExHeaders(ok) ==
    /\ ex_pc = "fetching"
    /\ ex_timer' = FALSE
    /\ ex_status' = IF ok THEN "2xx" ELSE "non-2xx"
    /\ ex_pc' = "reading"
    /\ UNCHANGED <<ex_method, ex_clock, ex_body, ex_result, ex_fetches, ex_aborted>>
    /\ ExFrame

\* fetch() rejects before any response (offline, DNS, CORS).
ExFetchFail ==
    /\ ex_pc = "fetching"
    /\ ex_pc' = "rejected"
    /\ ex_result' = CatchBlock(ExecutorOf(ex_method), FetchTypeError)
    /\ ex_timer' = IF CatchClearsTimer(ExecutorOf(ex_method)) THEN FALSE ELSE ex_timer
    /\ ex_fetches' = FetchesAfter(ex_result', ex_fetches)
    /\ UNCHANGED <<ex_method, ex_clock, ex_status, ex_body, ex_aborted>>
    /\ ExFrame

\* response.json() resolves with the parsed body.
ExBody(body) ==
    /\ ex_pc = "reading"
    /\ ex_body' = body
    /\ ex_result' = AfterBody(ExecutorOf(ex_method), ex_status = "2xx", body)
    /\ ex_pc' = ex_result'.kind
    /\ ex_fetches' = FetchesAfter(ex_result', ex_fetches)
    /\ UNCHANGED <<ex_method, ex_clock, ex_timer, ex_status, ex_aborted>>
    /\ ExFrame

\* response.json() rejects: the body is no JSON, or the connection broke.
ExBodyFail(err) ==
    /\ ex_pc = "reading"
    /\ ex_pc' = "rejected"
    /\ ex_result' = CatchBlock(ExecutorOf(ex_method), err)
    /\ ex_fetches' = FetchesAfter(ex_result', ex_fetches)
    /\ UNCHANGED <<ex_method, ex_clock, ex_timer, ex_status, ex_body, ex_aborted>>
    /\ ExFrame


ExNext ==
    \/ \E m \in Methods : ExInvoke(m)
    \/ ExTick
    \/ ExTimerFire
    \/ \E ok \in BOOLEAN : ExHeaders(ok)
    \/ ExFetchFail
    \/ \E body \in Bodies : ExBody(body)
    \/ \E err \in BodyErrors : ExBodyFail(err)

(***************************************************************************)
(* Claims about the executor, checked under SpecExec.                      *)
(***************************************************************************)

\* C1 (as stated). Whenever the budget of a call elapses before the server
\* responded, the call is rejected with the message "The request is taking
\* longer than expected...", for requestWithTimeout and diagnoseImage alike.
C1_TimeoutMessageIsTakingLonger ==
    ex_aborted => /\ ex_pc = "rejected"
                  /\ ex_result.message = TimeoutMsg

\* C1 (amended). A call whose fetch is still pending when its budget elapses
\* is aborted and rejected with the timeout message of its executor
\* (requestWithTimeout: TimeoutMsg, diagnoseImage: ImageTimeoutMsg), never with
\* the generic network error, the browser's fetch error or the raw abort error;
\* and no fetch stays pending past the budget.
C1_TimeoutClassified ==
    /\ ex_pc = "fetching" => ex_timer /\ ex_clock <= TimeoutOf(ex_method)
    /\ ex_aborted =>
        /\ ex_pc = "rejected"
        /\ ex_clock >= TimeoutOf(ex_method)
        /\ ex_result.kind = "rejected"
        /\ ex_result.message =
              (IF ex_method = "diagnoseImage" THEN ImageTimeoutMsg ELSE TimeoutMsg)
        /\ ex_result.message \notin {NetworkErrorMsg, FailedToFetchMsg, AbortedMsg}

\* C1 witness: diagnoseImage was aborted at 90 s and rejected with its own
\* timeout message.
C1_Witness ==
    /\ ex_aborted
    /\ ex_method = "diagnoseImage"
    /\ ex_clock >= 90000
    /\ ex_result.message = ImageTimeoutMsg

\* C2. No call is still pending (fetching, or reading the response body) once
\* its timeout budget has elapsed.
C2_SettlesWithinBudget ==
    ExPending => ex_clock <= TimeoutOf(ex_method)

C24_NoTimerAfterSettle ==
    /\ ex_pc = "fetching" => ex_timer
    /\ ExSettled => ~ex_timer

\* C15. An invocation of a gateway method calls fetch() exactly once: while
\* it is pending and after it has settled (resolved, rejected for a non-2xx
\* answer, a timeout or a network failure) the count stays one, and a settled
\* invocation has nothing pending. Only a new invocation issues a request.
C15_OneRequestPerInvocation ==
    /\ ex_pc = "idle" => ex_fetches = 0
    /\ ex_pc # "idle" => ex_fetches = 1
    /\ ExSettled => ex_result.kind = ex_pc

\* C15 witness: a call that failed on the network stays rejected, with its one
\* request, when its budget has elapsed later on.
C15_Witness ==
    /\ ex_pc = "rejected"
    /\ ex_result.message = FailedToFetchMsg
    /\ ex_clock >= TimeoutOf(ex_method)
    /\ ~ex_timer
    /\ ex_fetches = 1

(***************************************************************************)
(*                      SESSION / AUTH COORDINATOR                         *)
(***************************************************************************)
NoUser == "<null>"
Users == {"alice"}
Passwords == {"pw1"}

\* Toasts and messages of the coordinator and the backend.
WelcomeBackMsg == "Welcome back!"
AccountCreatedMsg == "Account created successfully!"
LoggedOutMsg == "Logged out successfully"
LogoutFailedMsg == "Logout failed"
InvalidCredentialsMsg == "Invalid credentials"
UsernameTakenMsg == "Username already exists"
ServerErrorMsg == "Internal server error"

\* localStorage.getItem(STORAGE_KEY): absent, or a string; a string written by
\* login is the JSON of {username, password}.
NoCreds == [form |-> "absent", username |-> "", password |-> ""]
\* A {username, password} object in memory.
Credentials(username, password) ==
    [form |-> "object", username |-> username, password |-> password]
\* JSON.stringify(credentials): the string stored by login.
Stringify(credentials) == [credentials EXCEPT !.form = "json"]
\* JSON.parse(stored), for an item that parses.
Parse(item) == [item EXCEPT !.form = "object"]

\* A mutant of TryAutoLoginPlan: the fields of the record are not looked at.
TryAutoLoginPlanNoFieldCheck(item) ==
    IF item.form = "absent" THEN "return"
    ELSE IF item.form # "json" THEN "remove"
    ELSE "login"

\* The start of tryAutoLogin, up to its first await: what it does with the item.
\*   "return"  no item                      (if (!stored) return)
\*   "remove"  JSON.parse throws, or a field is empty: removeItem, return
\*   "login"   api.login(credentials.username, credentials.password)
TryAutoLoginPlan(item) ==
    IF item.form = "absent" THEN "return"
    ELSE IF item.form # "json" THEN "remove"
    ELSE IF item.username = "" \/ item.password = "" THEN "remove"
    ELSE "login"

\* What a gateway call settles with, as the coordinator sees it.
OkResp(authenticated, u) ==
    [ok |-> TRUE, authenticated |-> authenticated, user |-> u, error |-> ""]
ErrResp(msg) ==
    [ok |-> FALSE, authenticated |-> FALSE, user |-> NoUser, error |-> msg]
NoResp == ErrResp("<none>")

OpIds == 0..MaxOps
UiOpIds == 1..MaxOps

\* An asynchronous call of the coordinator: slot 0 holds the mount check, the
\* other slots the calls the UI makes. While a call is in flight it keeps
\*   check, record  what its check-auth request settled with, and the stored
\*                  item at that moment
\*   logins         the login requests it has issued
\*   stale          a logout completed successfully while it was in flight
IdleOp ==
    [kind |-> "none", pc |-> "idle", req |-> "none", net |-> "none",
     resp |-> NoResp, creds |-> NoCreds, remember |-> FALSE,
     check |-> "none", record |-> NoCreds, logins |-> 0, stale |-> FALSE]

\* What the program holds of a call: the record without the mark `stale`.
Held(op) == [op EXCEPT !.stale = FALSE]

\* An operation that has just issued its first request.
NewOp(kind, pc, req, creds, remember) ==
    [IdleOp EXCEPT !.kind = kind, !.pc = pc, !.req = req, !.net = "sent",
                   !.creds = creds, !.remember = remember]

\* A mutant of Finished: the coordinator checks the session again by itself
\* whenever its startup check is over.
FinishedChecksAgain(i) ==
    IF i = 0
    THEN [IdleOp EXCEPT !.kind = "checkAuth", !.pc = "check_wait",
                        !.req = "check-auth", !.net = "sent"]
    ELSE IdleOp

\* The slot of a call that is over: the mount check runs once per process.
Finished(i) == IF i = 0 THEN [IdleOp EXCEPT !.kind = "checkAuth", !.pc = "done"]
               ELSE IdleOp

\* The completion of a coordinator call, as seen in the state right after it:
\* which call, how its promise settled ("fulfilled" | "rejected"), what its
\* check-auth request had settled with and the stored item then, the login
\* requests it issued, the rememberMe flag it was called with, and what its
\* last request settled with.
NoEvent ==
    [slot |-> -1, kind |-> "none", outcome |-> "none", check |-> "none",
     record |-> NoCreds, logins |-> 0, remember |-> FALSE, reply |-> NoResp]
Completion(i, op, outcome, r) ==
    [slot |-> i, kind |-> op.kind, outcome |-> outcome, check |-> op.check,
     record |-> op.record, logins |-> op.logins, remember |-> op.remember,
     reply |-> r]

SlotFree(i) == ops[i].kind = "none"
\* The UI's calls take the lowest free slot.
NextSlot(i) == SlotFree(i) /\ \A j \in UiOpIds : j < i => ~SlotFree(j)

\* A process that starts with `item` under STORAGE_KEY.
AuthStart(item) ==
    /\ user = NoUser
    /\ loading = TRUE
    /\ stored = item
    /\ toast = ""
    /\ settled = NoEvent
    /\ ops = [i \in OpIds |-> IdleOp]
    /\ mounted = FALSE
    /\ proc = 1
    /\ srvSession = NoUser
    /\ uiActed = FALSE
    /\ bootAfterLogout = FALSE

\* The first visit: nothing is stored.
AuthInit == AuthStart(NoCreds)

\* What the request of op can settle with at the client. Until the response
\* headers have arrived the abort timer is armed: the call is rejected for the
\* timeout or for a network failure. Once they have arrived (net = "reading")
\* the timer is cleared: the call settles with the backend's reply (a non-2xx
\* reply as the executor's rejection) when the body has been read, or is
\* rejected when reading the body fails.
SettlesOf(op) ==
    IF op.net = "reading"
    THEN {IF op.resp.ok THEN op.resp
          ELSE ErrResp(HttpErrorOf("requestWithTimeout",
                                   [error |-> op.resp.error]).message),
          ErrResp(CatchBlock("requestWithTimeout", FetchTypeError).message)}
    ELSE {ErrResp(CatchBlock("requestWithTimeout", AbortError).message),
          ErrResp(CatchBlock("requestWithTimeout", FetchTypeError).message)}

\* A mutant of CheckAuthResult: checkAuth without the silent re-login.
CheckAuthResultNoAutoLogin(r, item) ==
    IF r.ok /\ r.authenticated
    THEN [user |-> r.user, plan |-> "done"]
    ELSE [user |-> NoUser, plan |-> "return"]

\* A mutant of CheckAuthResult: the re-login is tried without a stored record.
CheckAuthResultAlwaysLogin(r, item) ==
    IF r.ok /\ r.authenticated
    THEN [user |-> r.user, plan |-> "done"]
    ELSE [user |-> NoUser, plan |-> "login"]

\* A mutant of CheckAuthResult: a failed check-auth request leaves the user
\* as it was.
CheckAuthResultErrorKeepsUser(r, item) ==
    IF r.ok /\ r.authenticated
    THEN [user |-> r.user, plan |-> "done"]
    ELSE [user |-> IF r.ok THEN NoUser ELSE user, plan |-> TryAutoLoginPlan(item)]

\* A mutant of CheckAuthResult: a check that finds no session does not sign
\* out a user that another call has set in the meantime.
CheckAuthResultFirstWins(r, item) ==
    IF r.ok /\ r.authenticated
    THEN [user |-> r.user, plan |-> "done"]
    ELSE [user |-> user, plan |-> TryAutoLoginPlan(item)]

\* checkAuth after `await api.checkAuth()`: the user it sets, and how it goes
\* on ("done", or the plan of tryAutoLogin for the stored item).
CheckAuthResult(r, item) ==
    IF r.ok /\ r.authenticated
    THEN [user |-> r.user, plan |-> "done"]
    ELSE [user |-> NoUser, plan |-> TryAutoLoginPlan(item)]

\* A mutant of AutoLoginResult: the record is erased after a successful
\* re-login too.
AutoLoginResultAlwaysErases(r, u, item) ==
    IF r.ok THEN [user |-> r.user, stored |-> NoCreds]
    ELSE [user |-> u, stored |-> NoCreds]

\* A mutant of AutoLoginResult: a failed re-login keeps the stored record.
AutoLoginResultKeepsRecord(r, u, item) ==
    IF r.ok THEN [user |-> r.user, stored |-> item]
    ELSE [user |-> u, stored |-> item]

\* tryAutoLogin after `await api.login(...)`: setUser on success, removeItem
\* in the catch block.
AutoLoginResult(r, u, item) ==
    IF r.ok THEN [user |-> r.user, stored |-> item]
    ELSE [user |-> u, stored |-> NoCreds]

\* A mutant of LoginResult: the credentials are stored without the flag.
LoginResultAlwaysStores(r, u, item, credentials, rememberMe) ==
    IF r.ok
    THEN [user |-> r.user, stored |-> Stringify(credentials),
          toast |-> WelcomeBackMsg, outcome |-> "fulfilled"]
    ELSE [user |-> u, stored |-> item, toast |-> r.error, outcome |-> "rejected"]

\* login after `await api.login(...)`.
LoginResult(r, u, item, credentials, rememberMe) ==
    IF r.ok
    THEN [user |-> r.user,
          stored |-> IF rememberMe THEN Stringify(credentials) ELSE item,
          toast |-> WelcomeBackMsg, outcome |-> "fulfilled"]
    ELSE [user |-> u, stored |-> item, toast |-> r.error, outcome |-> "rejected"]

\* register after `await api.register(...)`.
RegisterResult(r, u) ==
    IF r.ok
    THEN [user |-> r.user, toast |-> AccountCreatedMsg, outcome |-> "fulfilled"]
    ELSE [user |-> u, toast |-> r.error, outcome |-> "rejected"]

\* A mutant of LogoutResult: the local state is cleared when the call failed too.
LogoutResultClearsAnyway(r, u, item) ==
    IF r.ok
    THEN [user |-> NoUser, stored |-> NoCreds, toast |-> LoggedOutMsg,
          outcome |-> "fulfilled"]
    ELSE [user |-> NoUser, stored |-> NoCreds, toast |-> LogoutFailedMsg,
          outcome |-> "fulfilled"]

\* A mutant of LogoutResult: logout leaves the stored record in place.
LogoutResultKeepsRecord(r, u, item) ==
    IF r.ok
    THEN [user |-> NoUser, stored |-> item, toast |-> LoggedOutMsg,
          outcome |-> "fulfilled"]
    ELSE [user |-> u, stored |-> item, toast |-> LogoutFailedMsg,
          outcome |-> "fulfilled"]

\* logout after `await api.logout()`; the catch block only shows a toast.
LogoutResult(r, u, item) ==
    IF r.ok
    THEN [user |-> NoUser, stored |-> NoCreds, toast |-> LoggedOutMsg,
          outcome |-> "fulfilled"]
    ELSE [user |-> u, stored |-> item, toast |-> LogoutFailedMsg,
          outcome |-> "fulfilled"]

\* The answers the backend can give to a request: it serves it ("ok") or
\* answers non-2xx: it refuses the credentials or the username of a login or
\* register request ("refuse"), or fails on any other request ("error").
AnswersTo(req) ==
    IF req \in {"login", "register"} THEN {"ok", "refuse"} ELSE {"ok", "error"}

\* The backend's reply to the request of op, and the session it leaves.
ServerReply(op, answer) ==
    CASE answer = "error" ->
            [resp |-> ErrResp(ServerErrorMsg), session |-> srvSession]
      [] answer = "refuse" ->
            [resp |-> ErrResp(IF op.req = "login" THEN InvalidCredentialsMsg
                              ELSE UsernameTakenMsg),
             session |-> srvSession]
      [] op.req = "check-auth" ->
            [resp |-> OkResp(srvSession # NoUser, srvSession),
             session |-> srvSession]
      [] op.req \in {"login", "register"} ->
            [resp |-> OkResp(TRUE, op.creds.username),
             session |-> op.creds.username]
      [] OTHER ->
            [resp |-> OkResp(FALSE, NoUser), session |-> NoUser]

ServerFrame == UNCHANGED srvSession
\* A step that completes no call and shows no toast.
Quiet == toast' = "" /\ settled' = NoEvent

\* A mutant of Mount: the silent login is issued at once, without awaiting the
\* check-auth request.
MountLoginsAtOnce ==
    /\ ~mounted
    /\ mounted' = TRUE
    /\ ops' = [ops EXCEPT ![0] =
                  [NewOp("checkAuth", "login_wait", "login",
                         IF stored = NoCreds THEN NoCreds ELSE Parse(stored), TRUE)
                     EXCEPT !.logins = 1]]
    /\ Quiet
    /\ UNCHANGED <<user, loading, stored, proc, uiActed,
                   bootAfterLogout>>
    /\ ServerFrame /\ AuthFrame

\* The provider's mount effect: useEffect(() => { checkAuth() }, []).
Mount ==
    /\ ~mounted
    /\ mounted' = TRUE
    /\ ops' = [ops EXCEPT ![0] =
                  NewOp("checkAuth", "check_wait", "check-auth", NoCreds, FALSE)]
    /\ Quiet
    /\ UNCHANGED <<user, loading, stored, proc, uiActed,
                   bootAfterLogout>>
    /\ ServerFrame /\ AuthFrame

\* A call started from the UI in slot i.
UiCall(i, op) ==
    /\ mounted
    /\ NextSlot(i)
    /\ ops' = [ops EXCEPT ![i] = op]
    /\ uiActed' = TRUE
    /\ Quiet
    /\ UNCHANGED <<user, loading, stored, mounted, proc,
                   bootAfterLogout>>
    /\ ServerFrame /\ AuthFrame

\* The UI calls checkAuth() again (after a credits purchase).
UiCheckAuth(i) ==
    /\ i \in UiOpIds
    /\ UiCall(i, NewOp("checkAuth", "check_wait", "check-auth", NoCreds, FALSE))

\* The UI calls login(username, password, rememberMe).
UiLogin(i, username, password, rememberMe) ==
    /\ i \in UiOpIds
    /\ UiCall(i, NewOp("login", "wait", "login",
                       Credentials(username, password), rememberMe))

\* The UI calls register(username, email, password).
UiRegister(i, username, password) ==
    /\ i \in UiOpIds
    /\ UiCall(i, NewOp("register", "wait", "register",
                       Credentials(username, password), FALSE))

\* Navbar.handleLogout: the menu entry is shown to a signed-in user.
UiLogout(i) ==
    /\ user # NoUser
    /\ UiCall(i, NewOp("logout", "wait", "logout", NoCreds, FALSE))

\* The backend handles the request of operation i and the headers of its
\* response reach the client: fetch() resolves and the executor clears its
\* abort timer; the body is read next, without a bound on the time it takes.
ServerHandle(i, answer) ==
    /\ ops[i].net = "sent"
    /\ answer \in AnswersTo(ops[i].req)
    /\ LET a == ServerReply(ops[i], answer) IN
        /\ srvSession' = a.session
        /\ ops' = [ops EXCEPT ![i].net = "reading", ![i].resp = a.resp]
    /\ Quiet
    /\ UNCHANGED <<user, loading, stored, mounted, proc, uiActed, bootAfterLogout>>
    /\ AuthFrame

\* checkAuth resumes after `await api.checkAuth()` settled (resolved or
\* rejected) and runs to the end, or to the await inside tryAutoLogin.
CheckAuthSettles(i) ==
    /\ ops[i].kind = "checkAuth"
    /\ ops[i].pc = "check_wait"
    /\ \E r \in SettlesOf(ops[i]) :
        LET res == CheckAuthResult(r, stored)
            chk == IF ~r.ok THEN "failed"
                   ELSE IF r.authenticated THEN "authenticated"
                   ELSE "unauthenticated"
            op == [ops[i] EXCEPT !.check = chk, !.record = stored]
        IN
        /\ user' = res.user
        /\ IF res.plan = "login"
           THEN /\ ops' = [ops EXCEPT ![i] =
                             [op EXCEPT !.pc = "login_wait", !.req = "login",
                                        !.net = "sent", !.resp = NoResp,
                                        !.creds = Parse(stored),
                                        !.remember = TRUE,
                                        !.logins = @ + 1]]
                /\ settled' = NoEvent
                /\ UNCHANGED <<loading, stored>>
           ELSE /\ ops' = [ops EXCEPT ![i] = Finished(i)]
                /\ settled' = Completion(i, op, "fulfilled", NoResp)
                /\ loading' = FALSE
                /\ stored' = IF res.plan = "remove" THEN NoCreds ELSE stored
    /\ toast' = ""
    /\ UNCHANGED <<mounted, proc, uiActed, bootAfterLogout>>
    /\ ServerFrame /\ AuthFrame

\* tryAutoLogin resumes after `await api.login(...)` settled; checkAuth then
\* runs its finally block.
TryAutoLoginSettles(i) ==
    /\ ops[i].kind = "checkAuth"
    /\ ops[i].pc = "login_wait"
    /\ \E r \in SettlesOf(ops[i]) :
        LET res == AutoLoginResult(r, user, stored) IN
        /\ user' = res.user
        /\ stored' = res.stored
        /\ loading' = FALSE
        /\ ops' = [ops EXCEPT ![i] = Finished(i)]
        /\ settled' = Completion(i, ops[i], "fulfilled", r)
    /\ toast' = ""
    /\ UNCHANGED <<mounted, proc, uiActed, bootAfterLogout>>
    /\ ServerFrame /\ AuthFrame

\* login resumes after `await api.login(...)` settled.
LoginSettles(i) ==
    /\ ops[i].kind = "login"
    /\ ops[i].pc = "wait"
    /\ \E r \in SettlesOf(ops[i]) :
        LET res == LoginResult(r, user, stored, ops[i].creds, ops[i].remember) IN
        /\ user' = res.user
        /\ stored' = res.stored
        /\ toast' = res.toast
        /\ ops' = [ops EXCEPT ![i] = Finished(i)]
        /\ settled' = Completion(i, ops[i], res.outcome, r)
    /\ UNCHANGED <<loading, mounted, proc, uiActed, bootAfterLogout>>
    /\ ServerFrame /\ AuthFrame

\* register resumes after `await api.register(...)` settled.
RegisterSettles(i) ==
    /\ ops[i].kind = "register"
    /\ ops[i].pc = "wait"
    /\ \E r \in SettlesOf(ops[i]) :
        LET res == RegisterResult(r, user) IN
        /\ user' = res.user
        /\ toast' = res.toast
        /\ ops' = [ops EXCEPT ![i] = Finished(i)]
        /\ settled' = Completion(i, ops[i], res.outcome, r)
    /\ UNCHANGED <<loading, stored, mounted, proc, uiActed,
                   bootAfterLogout>>
    /\ ServerFrame /\ AuthFrame

\* logout resumes after `await api.logout()` settled. The calls in flight
\* when a logout succeeds are marked: they were started before it.
LogoutSettles(i) ==
    /\ ops[i].kind = "logout"
    /\ ops[i].pc = "wait"
    /\ \E r \in SettlesOf(ops[i]) :
        LET res == LogoutResult(r, user, stored) IN
        /\ user' = res.user
        /\ stored' = res.stored
        /\ toast' = res.toast
        /\ ops' = [j \in OpIds |->
                     IF j = i THEN Finished(i)
                     ELSE IF r.ok /\ ops[j].net # "none"
                     THEN [ops[j] EXCEPT !.stale = TRUE]
                     ELSE ops[j]]
        /\ settled' = Completion(i, ops[i], res.outcome, r)
    /\ UNCHANGED <<loading, mounted, proc, uiActed, bootAfterLogout>>
    /\ ServerFrame /\ AuthFrame

\* The page is loaded again: a fresh process. The storage and the session
\* cookie survive; the requests of the old process are dropped.
Restart ==
    /\ proc < MaxProcs
    /\ proc' = proc + 1
    /\ user' = NoUser
    /\ loading' = TRUE
    /\ ops' = [i \in OpIds |-> IdleOp]
    /\ mounted' = FALSE
    /\ uiActed' = FALSE
    /\ bootAfterLogout' = (settled.kind = "logout" /\ settled.reply.ok)
    /\ Quiet
    /\ UNCHANGED stored
    /\ ServerFrame /\ AuthFrame

\* The backend session expires.
SessionExpires ==
    /\ srvSession # NoUser
    /\ srvSession' = NoUser
    /\ Quiet
    /\ UNCHANGED <<user, loading, stored, ops, mounted, proc, uiActed,
                   bootAfterLogout>>
    /\ AuthFrame

Next ==
    \/ Mount
    \/ \E i \in UiOpIds : UiCheckAuth(i)
    \/ \E i \in UiOpIds, u \in Users, pw \in Passwords, rememberMe \in BOOLEAN :
          UiLogin(i, u, pw, rememberMe)
    \/ \E i \in UiOpIds, u \in Users, pw \in Passwords : UiRegister(i, u, pw)
    \/ \E i \in UiOpIds : UiLogout(i)
    \/ \E i \in OpIds, answer \in {"ok", "error", "refuse"} : ServerHandle(i, answer)
    \/ \E i \in OpIds : CheckAuthSettles(i)
    \/ \E i \in OpIds : TryAutoLoginSettles(i)
    \/ \E i \in OpIds : LoginSettles(i)
    \/ \E i \in OpIds : RegisterSettles(i)
    \/ \E i \in OpIds : LogoutSettles(i)
    \/ Restart
    \/ SessionExpires

(***************************************************************************)
(* Claims about the coordinator, checked under Spec. `settled` describes   *)
(* the call completed by the step that led to the state.                   *)
(***************************************************************************)
MountCheckDone == settled.slot = 0 /\ settled.kind = "checkAuth"

\* C4. A process that starts with the record a login with rememberMe left:
\* when its mount check is answered "not authenticated" or fails, exactly one
\* silent login is tried, and when the backend accepts it the check ends with
\* user set to the user returned and loading = FALSE; with no user action in
\* that process the record is still the one found.
C4_SilentReLogin ==
    (/\ MountCheckDone
     /\ settled.check \in {"unauthenticated", "failed"}
     /\ settled.record = Stringify(Credentials("alice", "pw1")))
    => /\ settled.logins = 1
       /\ settled.reply.ok =>
            /\ user = settled.reply.user
            /\ user # NoUser
            /\ loading = FALSE
            /\ ~uiActed => stored = settled.record

\* C4 witness: the second process, without any user action, is signed in by
\* the silent re-login and still holds the record.
C4_Witness ==
    /\ proc = 2
    /\ ~uiActed
    /\ MountCheckDone
    /\ settled.check = "unauthenticated"
    /\ settled.logins = 1
    /\ settled.reply.ok
    /\ user = "alice"
    /\ loading = FALSE
    /\ stored = Stringify(Credentials("alice", "pw1"))

C6_AnonymousNoExtraCalls ==
    (/\ settled.kind = "checkAuth"
     /\ settled.check = "unauthenticated"
     /\ settled.record = NoCreds)
    => /\ user = NoUser
       /\ loading = FALSE
       /\ settled.logins = 0
       /\ settled.reply = NoResp
       /\ ops[settled.slot].net = "none"
       /\ ops[settled.slot].pc \in {"done", "idle"}

\* C6 witness: the mount check of a process without a record ended anonymous.
C6_Witness ==
    /\ MountCheckDone
    /\ settled.check = "unauthenticated"
    /\ settled.record = NoCreds
    /\ stored = NoCreds
    /\ user = NoUser
    /\ loading = FALSE

\* C7. The step in which logout() learns that the server call failed leaves
\* user (and the stored record) as they were, shows the toast "Logout
\* failed", and fulfils the promise of logout().
C7_LogoutFailureKeepsUser ==
    [][(/\ settled'.kind = "logout"
        /\ ops[settled'.slot].kind = "logout"
        /\ ~settled'.reply.ok)
       => /\ user' = user
          /\ stored' = stored
          /\ toast' = LogoutFailedMsg
          /\ settled'.outcome = "fulfilled"]_vars

\* C7 witness: a failed logout of a signed-in user, who is still signed in.
C7_Witness ==
    /\ settled.kind = "logout"
    /\ settled.reply = ErrResp(ServerErrorMsg)
    /\ settled.outcome = "fulfilled"
    /\ toast = LogoutFailedMsg
    /\ user = "alice"

\* C8. A successful logout leaves user absent and the record erased; a process
\* started right after it holds no record, and when its mount check is
\* answered "not authenticated" it ends anonymous without a login request.
C8_LogoutErasesRecord ==
    /\ (settled.kind = "logout" /\ settled.reply.ok)
          => (user = NoUser /\ stored = NoCreds)
    /\ (bootAfterLogout /\ ~uiActed)
          => (stored = NoCreds /\ ops[0].pc # "login_wait")
    /\ (bootAfterLogout /\ ~uiActed /\ MountCheckDone
          /\ settled.check = "unauthenticated")
          => /\ user = NoUser
             /\ loading = FALSE
             /\ settled.record = NoCreds
             /\ settled.logins = 0

\* C8 witness: the process started after a logout that erased a record ended
\* its mount check anonymous, with no login request.
C8_Witness ==
    /\ bootAfterLogout
    /\ ~uiActed
    /\ MountCheckDone
    /\ settled.check = "unauthenticated"
    /\ settled.logins = 0
    /\ user = NoUser
    /\ loading = FALSE

\* C11. The stored record comes into being, or changes, only in the step in
\* which an explicit login called with rememberMe = TRUE succeeds, and it is
\* then the JSON of the credentials of that call: no failed login, login
\* without the flag, register, checkAuth or silent re-login writes it.
C11_RecordOnlyByOptIn ==
    [][(stored' # stored /\ stored' # NoCreds)
       => /\ settled'.kind = "login"
          /\ ops[settled'.slot].kind = "login"
          /\ settled'.remember
          /\ settled'.reply.ok
          /\ settled'.outcome = "fulfilled"
          /\ stored' = Stringify(ops[settled'.slot].creds)]_vars

\* C11 witness: a login with rememberMe succeeded and left the record.
C11_Witness ==
    /\ settled.kind = "login"
    /\ settled.remember
    /\ settled.reply.ok
    /\ settled.outcome = "fulfilled"
    /\ stored = Stringify(Credentials("alice", "pw1"))

\* C12. A check-auth request is issued in slot 0 only by the mount effect,
\* which runs once per process (before any call of the UI); every other
\* check-auth request is issued by a call the UI makes. No handler of the
\* coordinator issues one when a request settles.
C12_StartupCheckOnce ==
    [][/\ (mounted /\ proc' = proc) => mounted'
       /\ \A i \in OpIds :
            (Held(ops'[i]) # Held(ops[i]) /\ ops'[i].req = "check-auth" /\ ops'[i].net = "sent")
            => IF i = 0
               THEN ~mounted /\ mounted' /\ ~uiActed /\ proc' = proc
               ELSE /\ mounted /\ uiActed'
                    /\ ops[i].kind = "none"
                    /\ \A j \in OpIds \ {i} : ops'[j] = ops[j]]_vars

\* C12 witness: the startup check of the process is over and a check-auth
\* request of a later call by the UI is in flight.
C12_Witness ==
    /\ mounted
    /\ ops[0].pc = "done"
    /\ \E i \in UiOpIds : /\ ops[i].kind = "checkAuth"
                          /\ ops[i].req = "check-auth"
                          /\ ops[i].net = "sent"

CheckAuthStep(i) ==
    /\ ops[i].kind = "checkAuth"
    /\ Held(ops'[i]) # Held(ops[i])
    /\ proc' = proc

\* C14 (as stated). checkAuth has no side effect on the server session or on
\* the stored record: no step taken for a checkAuth call changes either, so
\* that repeated calls meet the same session and yield the same outcome.
C14_CheckAuthHasNoSideEffect ==
    [][\A i \in OpIds :
          CheckAuthStep(i) => (srvSession' = srvSession /\ stored' = stored)]_vars

\* C14 (amended). The check-auth request itself changes neither the server
\* session nor the stored record, and a reply to it reports the session as
\* it is. The checkAuth of the coordinator does have side effects, all of
\* them through its silent re-login: the login request may establish a
\* server session for the stored user, and the record is erased when that
\* login fails (or when the record holds no credentials).
C14_SideEffectsOnlyBySilentLogin ==
    [][\A i \in OpIds :
          CheckAuthStep(i) =>
             /\ ops[i].req = "check-auth" => srvSession' = srvSession
             /\ (ops[i].req = "check-auth" /\ ops'[i].net = "reading")
                   => /\ stored' = stored
                      /\ ops'[i].resp.ok
                            => ops'[i].resp = OkResp(srvSession # NoUser, srvSession)
             /\ srvSession' # srvSession
                   => /\ ops[i].pc = "login_wait"
                      /\ ops[i].req = "login"
                      /\ ops[i].net = "sent"
                      /\ srvSession' = Parse(ops[i].record).username
             /\ stored' # stored
                   => /\ stored' = NoCreds
                      /\ \/ ops[i].pc = "login_wait" /\ ~settled'.reply.ok
                         \/ /\ ops[i].pc = "check_wait"
                            /\ TryAutoLoginPlan(stored) = "remove"]_vars

\* C14 witness: a checkAuth whose check-auth request failed has established a
\* server session by its silent re-login.
C14_Witness ==
    /\ settled.kind = "checkAuth"
    /\ settled.check = "failed"
    /\ settled.logins = 1
    /\ settled.reply.ok
    /\ srvSession = "alice"
    /\ user = "alice"

\* C16. checkAuth never rejects: every completion of a checkAuth call fulfils
\* its promise and leaves loading = FALSE. The step in which the call learns
\* that its check-auth request failed (non-2xx, timeout, network failure) sets
\* user absent and goes on to the silent login exactly when the record holds
\* credentials; a failure of that login ends the call fulfilled as well, with
\* the record erased and user untouched.
C16_CheckAuthNeverRejects ==
    [][/\ settled'.kind = "checkAuth"
            => (settled'.outcome = "fulfilled" /\ loading' = FALSE)
       /\ \A i \in OpIds :
            (ops[i].kind = "checkAuth" /\ ops[i].pc = "check_wait" /\ proc' = proc)
            => /\ ops'[i].pc = "login_wait"
                    => /\ user' = NoUser
                       /\ ops'[i].check \in {"unauthenticated", "failed"}
                       /\ TryAutoLoginPlan(stored) = "login"
                       /\ loading' = loading
               /\ (settled'.slot = i /\ settled'.check = "failed")
                    => /\ user' = NoUser
                       /\ TryAutoLoginPlan(stored) # "login"
       /\ \A i \in OpIds :
            (ops[i].pc = "login_wait" /\ settled'.slot = i /\ ~settled'.reply.ok)
            => /\ settled'.outcome = "fulfilled"
               /\ loading' = FALSE
               /\ stored' = NoCreds
               /\ user' = user]_vars

\* C16 witness: the check-auth request failed, the silent re-login failed too,
\* and the call ended fulfilled with loading = FALSE.
C16_Witness ==
    /\ settled.kind = "checkAuth"
    /\ settled.check = "failed"
    /\ settled.logins = 1
    /\ ~settled.reply.ok
    /\ settled.outcome = "fulfilled"
    /\ loading = FALSE
    /\ user = NoUser
    /\ stored = NoCreds

\* A request that still waits for the response headers settles in the end:
\* the abort timer of the executor is armed until they arrive. Nothing bounds
\* the time the body takes once the headers are there.
TimerSettles(i) ==
    /\ ops[i].net = "sent"
    /\ \/ CheckAuthSettles(i)
       \/ TryAutoLoginSettles(i)
       \/ LoginSettles(i)
       \/ RegisterSettles(i)
       \/ LogoutSettles(i)

\* The coordinator with the progress the code guarantees: the mount effect
\* runs, and the abort timer ends every wait for response headers.
Fairness ==
    /\ WF_vars(Mount)
    /\ \A i \in OpIds : WF_vars(TimerSettles(i))

\* C17. The session starts in Unknown (loading = TRUE) and the startup check
\* always brings it to loading = FALSE in the end.
C17_StartupReachesKnown == loading ~> ~loading

\* Request req of the call in slot i is in flight.
InFlight(i, req) == ops[i].net # "none" /\ ops[i].req = req

\* C22. The coordinator's startup sequence is strictly sequential: the silent
\* re-login request is issued only in the step in which the check-auth request
\* of the startup check has resolved or rejected, so the two are never in
\* flight at the same time.
C22_StartupSequential ==
    [][/\ ~(InFlight(0, "check-auth")' /\ InFlight(0, "login")')
       /\ (InFlight(0, "login")' /\ ~InFlight(0, "login")) =>
            /\ InFlight(0, "check-auth")
            /\ ops[0].check = "none"
            /\ ops'[0].check \in {"failed", "unauthenticated"}
            /\ ops'[0].logins = 1
       /\ InFlight(0, "login") => ops'[0].logins <= 1]_vars

\* C22 witness: the startup check's silent login is in flight, after its
\* check-auth request was rejected.
C22_Witness ==
    /\ InFlight(0, "login")
    /\ ops[0].check = "failed"
    /\ ops[0].kind = "checkAuth"

\* The step delivers the outcome of the request of call i to the coordinator:
\* its response has been read, or the request is rejected.
Arrives(i) ==
    /\ ops[i].net # "none"
    /\ Held(ops'[i]) # Held(ops[i])
    /\ proc' = proc
    /\ ~(ops[i].net = "sent" /\ ops'[i].net = "reading")

\* What the step that delivers the outcome of call i makes of user: the value
\* of that outcome, whatever the other calls in flight and whatever user held.
AppliesOwnOutcome(i) ==
    CASE ops[i].req = "check-auth" ->
            LET chk == IF ops'[i].pc = "login_wait" THEN ops'[i].check
                       ELSE settled'.check
            IN user' = IF chk = "authenticated" THEN ops[i].resp.user ELSE NoUser
      [] ops[i].req \in {"login", "register"} ->
            user' = IF settled'.reply.ok THEN settled'.reply.user ELSE user
      [] ops[i].req = "logout" ->
            user' = IF settled'.reply.ok THEN NoUser ELSE user
      [] OTHER -> FALSE

\* C23. When two coordinator operations that write the user state are in
\* flight at the same time, every response that arrives sets user to the value
\* it delivers, so the final value of user is the one delivered by the
\* response that arrives last, independent of the order in which the requests
\* were issued; a rejected login, register or logout delivers none and leaves
\* user as it is.
C23_LastResponseWins ==
    [][\A i \in OpIds : Arrives(i) => AppliesOwnOutcome(i)]_vars

\* C23 witness: the mount check was issued before a call of the UI and its
\* response arrived after that call was over; user is the user of that
\* response, although the session it reported is gone.
C23_Witness ==
    /\ settled.slot = 0
    /\ settled.kind = "checkAuth"
    /\ settled.check = "authenticated"
    /\ uiActed
    /\ ops[1].kind = "none"
    /\ user # NoUser
    /\ srvSession = NoUser

\* C26. Once logout() has completed successfully, user stays absent until a
\* login, register or checkAuth that was started after that logout succeeds:
\* the response to a request issued before the logout (a checkAuth re-check or
\* the startup silent re-login still in flight) cannot set user again.
C26_StaleResponseCannotSignIn ==
    [][\A i \in OpIds :
         (Arrives(i) /\ ops[i].stale) => (user' = NoUser \/ user' = user)]_vars

(***************************************************************************)
(*                     BUY-CREDITS MODAL (purchase flow)                   *)
(***************************************************************************)
\* Purchases in progress at one time.
MaxOrders == 2
\* Package fetches, and script loads of the open effect, in flight at one time.
MaxLoads == 1

PackageIds == {"basic", "pro"}
OrderIds == 1..MaxOrders

\* Texts fixed by the modal's code.
PaymentSuccessfulTitle == "Payment Successful!"
PaymentErrorTitle == "Payment Error"
ErrorTitle == "Error"
VerificationFailedMsg == "Payment verification failed"
InitiateFailedMsg == "Failed to initiate payment"
GatewayNotLoadedMsg == "Payment gateway not loaded. Please refresh and try again."
PackagesFailedMsg == "Failed to load credit packages"
\* useState<string | null>(null)
NullError == "<null>"

\* err.message || fallback
OrDefault(message, fallback) == IF message = "" THEN fallback ELSE message

\* What a gateway call of the purchase flow settles with: the parsed body
\* (reduced to its `success` field), or a rejection with the executor's
\* message.
PayResolved(success) == [ok |-> TRUE, success |-> success, error |-> ""]
PayRejected(msg) == [ok |-> FALSE, success |-> "absent", error |-> msg]
NoPayReply == PayRejected("<none>")
PayRejections == {PayRejected(m) : m \in {ServerErrorMsg, TimeoutMsg}}
VerifyReplies == {PayResolved(s) : s \in {"true", "false", "absent"}} \cup PayRejections
OrderReplies == {PayResolved("absent")} \cup PayRejections
\* if (verifyData.success)
Truthy(success) == success = "true"

IdleOrder == [pc |-> "idle", pkg |-> "", own |-> FALSE]
NoPayEvent == [order |-> 0, reply |-> NoPayReply, onSuccess |-> FALSE]

PayInit ==
    /\ pay_isOpen = FALSE
    /\ pay_packages = {}
    /\ pay_loading = FALSE
    /\ pay_error = NullError
    /\ pay_selectedPackage = ""
    /\ pay_razorpay = FALSE
    /\ pay_scripts = 0
    /\ pay_fetching = 0
    /\ pay_orders = [i \in OrderIds |-> IdleOrder]
    /\ pay_toast = ""
    /\ pay_done = NoPayEvent

PayQuiet == pay_toast' = "" /\ pay_done' = NoPayEvent

\* The lowest free slot takes the next purchase.
NextOrder(i) ==
    /\ pay_orders[i].pc = "idle"
    /\ \A j \in OrderIds : j < i => pay_orders[j].pc # "idle"

\* The handler without the test of verifyData.success.
HandlerResultNoSuccessTest(v) ==
    IF v.ok
    THEN [toast |-> PaymentSuccessfulTitle, onSuccess |-> TRUE, onClose |-> TRUE,
          setError |-> FALSE, error |-> ""]
    ELSE [toast |-> PaymentErrorTitle, onSuccess |-> FALSE, onClose |-> FALSE,
          setError |-> TRUE, error |-> OrDefault(v.error, VerificationFailedMsg)]

\* options.handler after `await api.verifyPayment(...)` settled with v: what
\* it shows and which callbacks it invokes.
HandlerResult(v) ==
    IF v.ok /\ Truthy(v.success)
    THEN [toast |-> PaymentSuccessfulTitle, onSuccess |-> TRUE, onClose |-> TRUE,
          setError |-> FALSE, error |-> ""]
    ELSE [toast |-> PaymentErrorTitle, onSuccess |-> FALSE, onClose |-> FALSE,
          setError |-> TRUE,
          error |-> OrDefault(IF v.ok THEN VerificationFailedMsg ELSE v.error,
                              VerificationFailedMsg)]

\* The parent opens the modal; the effect on isOpen starts fetchPackages and
\* loadRazorpayScript.
PayOpen ==
    /\ ~pay_isOpen
    /\ pay_fetching < MaxLoads
    /\ pay_scripts < MaxLoads
    /\ pay_isOpen' = TRUE
    /\ pay_fetching' = pay_fetching + 1
    /\ pay_scripts' = IF pay_razorpay THEN pay_scripts ELSE pay_scripts + 1
    /\ PayQuiet
    /\ UNCHANGED <<pay_packages, pay_loading, pay_error, pay_selectedPackage,
                   pay_razorpay, pay_orders>>
    /\ PayFrame

\* The user dismisses the dialog: onOpenChange={onClose}.
PayClose ==
    /\ pay_isOpen
    /\ pay_isOpen' = FALSE
    /\ PayQuiet
    /\ UNCHANGED <<pay_packages, pay_loading, pay_error, pay_selectedPackage,
                   pay_razorpay, pay_scripts, pay_fetching, pay_orders>>
    /\ PayFrame

\* fetchPackages after `await api.getCreditsPackages()`.
FetchPackagesSettles(ok) ==
    /\ pay_fetching > 0
    /\ pay_fetching' = pay_fetching - 1
    /\ IF ok
       THEN pay_packages' = PackageIds /\ UNCHANGED pay_error
       ELSE pay_error' = PackagesFailedMsg /\ UNCHANGED pay_packages
    /\ PayQuiet
    /\ UNCHANGED <<pay_isOpen, pay_loading, pay_selectedPackage, pay_razorpay,
                   pay_scripts, pay_orders>>
    /\ PayFrame

\* A script element appended by the open effect loads (onload) or fails
\* (onerror); the effect ignores the promise.
ScriptSettles(ok) ==
    /\ pay_scripts > 0
    /\ pay_scripts' = pay_scripts - 1
    /\ pay_razorpay' = (pay_razorpay \/ ok)
    /\ PayQuiet
    /\ UNCHANGED <<pay_isOpen, pay_packages, pay_loading, pay_error,
                   pay_selectedPackage, pay_fetching, pay_orders>>
    /\ PayFrame

\* handlePurchase(packageId) up to `await loadRazorpayScript()`.
HandlePurchase(i, packageId) ==
    /\ NextOrder(i)
    /\ pay_isOpen
    /\ packageId \in pay_packages
    /\ ~(pay_loading /\ pay_selectedPackage = packageId)
    /\ pay_loading' = TRUE
    /\ pay_error' = NullError
    /\ pay_selectedPackage' = packageId
    /\ pay_orders' = [pay_orders EXCEPT
                        ![i] = [pc |-> "script", pkg |-> packageId,
                                own |-> ~pay_razorpay]]
    /\ PayQuiet
    /\ UNCHANGED <<pay_isOpen, pay_packages, pay_razorpay, pay_scripts, pay_fetching>>
    /\ PayFrame

\* The catch block of handlePurchase.
PurchaseFails(i, message) ==
    /\ pay_error' = OrDefault(message, InitiateFailedMsg)
    /\ pay_toast' = ErrorTitle
    /\ pay_loading' = FALSE
    /\ pay_selectedPackage' = ""
    /\ pay_orders' = [pay_orders EXCEPT ![i] = IdleOrder]

\* loadRazorpayScript() settles for a purchase; then the script check and the
\* call of createPaymentOrder.
PurchaseScriptSettles(i, scriptLoaded) ==
    /\ pay_orders[i].pc = "script"
    /\ ~pay_orders[i].own => scriptLoaded
    /\ pay_razorpay' = (pay_razorpay \/ (pay_orders[i].own /\ scriptLoaded))
    /\ IF ~scriptLoaded \/ ~pay_razorpay'
       THEN PurchaseFails(i, GatewayNotLoadedMsg)
       ELSE /\ pay_orders' = [pay_orders EXCEPT ![i].pc = "order"]
            /\ pay_toast' = ""
            /\ UNCHANGED <<pay_error, pay_loading, pay_selectedPackage>>
    /\ pay_done' = NoPayEvent
    /\ UNCHANGED <<pay_isOpen, pay_packages, pay_scripts, pay_fetching>>
    /\ PayFrame

\* handlePurchase after `await api.createPaymentOrder(packageId)`: the checkout
\* is built, the dialog closed and the checkout scheduled to open.
CreateOrderSettles(i, r) ==
    /\ pay_orders[i].pc = "order"
    /\ IF r.ok
       THEN /\ pay_orders' = [pay_orders EXCEPT ![i].pc = "opening"]
            /\ pay_isOpen' = FALSE
            /\ pay_toast' = ""
            /\ UNCHANGED <<pay_error, pay_loading, pay_selectedPackage>>
       ELSE /\ PurchaseFails(i, r.error)
            /\ UNCHANGED pay_isOpen
    /\ pay_done' = NoPayEvent
    /\ UNCHANGED <<pay_packages, pay_razorpay, pay_scripts, pay_fetching>>
    /\ PayFrame

\* setTimeout(() => razorpay.open(), 100)
CheckoutOpens(i) ==
    /\ pay_orders[i].pc = "opening"
    /\ pay_orders' = [pay_orders EXCEPT ![i].pc = "checkout"]
    /\ PayQuiet
    /\ UNCHANGED <<pay_isOpen, pay_packages, pay_loading, pay_error,
                   pay_selectedPackage, pay_razorpay, pay_scripts, pay_fetching>>
    /\ PayFrame

\* The checkout reports a payment: options.handler runs up to
\* `await api.verifyPayment(...)`.
CheckoutPays(i) ==
    /\ pay_orders[i].pc = "checkout"
    /\ pay_orders' = [pay_orders EXCEPT ![i].pc = "verify"]
    /\ PayQuiet
    /\ UNCHANGED <<pay_isOpen, pay_packages, pay_loading, pay_error,
                   pay_selectedPackage, pay_razorpay, pay_scripts, pay_fetching>>
    /\ PayFrame

\* The user leaves the checkout: options.modal.ondismiss.
CheckoutDismissed(i) ==
    /\ pay_orders[i].pc = "checkout"
    /\ pay_orders' = [pay_orders EXCEPT ![i] = IdleOrder]
    /\ pay_loading' = FALSE
    /\ pay_selectedPackage' = ""
    /\ PayQuiet
    /\ UNCHANGED <<pay_isOpen, pay_packages, pay_error, pay_razorpay, pay_scripts,
                   pay_fetching>>
    /\ PayFrame

\* options.handler after verifyPayment settled: try, catch and finally.
VerifySettles(i, v) ==
    /\ pay_orders[i].pc = "verify"
    /\ LET h == HandlerResult(v) IN
         /\ pay_toast' = h.toast
         /\ pay_isOpen' = IF h.onClose THEN FALSE ELSE pay_isOpen
         /\ pay_error' = IF h.setError THEN h.error ELSE pay_error
         /\ pay_done' = [order |-> i, reply |-> v, onSuccess |-> h.onSuccess]
    /\ pay_loading' = FALSE
    /\ pay_selectedPackage' = ""
    /\ pay_orders' = [pay_orders EXCEPT ![i] = IdleOrder]
    /\ UNCHANGED <<pay_packages, pay_razorpay, pay_scripts, pay_fetching>>
    /\ PayFrame

PayNext ==
    \/ PayOpen
    \/ PayClose
    \/ \E ok \in BOOLEAN : FetchPackagesSettles(ok)
    \/ \E ok \in BOOLEAN : ScriptSettles(ok)
    \/ \E i \in OrderIds, packageId \in PackageIds : HandlePurchase(i, packageId)
    \/ \E i \in OrderIds, ok \in BOOLEAN : PurchaseScriptSettles(i, ok)
    \/ \E i \in OrderIds, r \in OrderReplies : CreateOrderSettles(i, r)
    \/ \E i \in OrderIds : CheckoutOpens(i)
    \/ \E i \in OrderIds : CheckoutPays(i)
    \/ \E i \in OrderIds : CheckoutDismissed(i)
    \/ \E i \in OrderIds, v \in VerifyReplies : VerifySettles(i, v)

(***************************************************************************)
(* Claims about the purchase flow, checked under SpecPay.                  *)
(***************************************************************************)

\* C9. The success path of a purchase (success toast, the onSuccess callback,
\* closing the modal) is taken only by a checkout handler whose verifyPayment
\* call resolved with success = true; when verifyPayment resolved with another
\* success value or rejected, onSuccess is not invoked and an error is shown
\* (the error text is stored and the "Payment Error" toast appears).
C9_SuccessOnlyAfterVerify ==
    /\ pay_toast = PaymentSuccessfulTitle => pay_done.order # 0
    /\ pay_done.onSuccess => pay_done.order # 0
    /\ pay_done.order # 0 =>
         IF pay_done.reply.ok /\ pay_done.reply.success = "true"
         THEN /\ pay_done.onSuccess
              /\ pay_toast = PaymentSuccessfulTitle
              /\ ~pay_isOpen
         ELSE /\ ~pay_done.onSuccess
              /\ pay_toast = PaymentErrorTitle
              /\ pay_error = (IF pay_done.reply.ok THEN VerificationFailedMsg
                              ELSE pay_done.reply.error)

\* C9 witness: a purchase reached verification, verifyPayment resolved with
\* success = false, and the handler showed the error without calling onSuccess.
C9_Witness ==
    /\ pay_done.order # 0
    /\ pay_done.reply = PayResolved("false")
    /\ ~pay_done.onSuccess
    /\ pay_toast = PaymentErrorTitle
    /\ pay_error = VerificationFailedMsg

(***************************************************************************)
(*                             DIAGNOSE PAGE                               *)
(***************************************************************************)
\* Files the user picks in one use of the file input.
MaxBatch == 2
\* Batches of FileReaders that may be reading at one time.
MaxReaders == 1
\* Milliseconds of Date.now() the Chat page is followed for.
MaxNow == 2
\* Messages the Chat page may hold when a send starts, plus the two it adds.
MaxChat == 4
\* remainingSlots = 5 - selectedImages.length
MaxImages == 5

\* Texts of the symptoms field: empty, blank, and a description.
SymptomTexts == {"", " ", "rash"}
\* symptoms.trim()
Trim(text) == IF text = " " THEN "" ELSE text

\* useState<any>(null)
NoDiagnosis == "<null>"
DiagnosisResults == {"diagnosis-1", "diagnosis-2"}
\* response.credits_remaining: undefined, or the balance.
Undefined == "<undefined>"
CreditsRemaining == {Undefined, "4"}

\* Files the user can pick, and the data URL a FileReader produces for one.
DiagFiles == {"a"}
DataUrl(file) == <<"data:", file>>
Batches == UNION {[1..n -> DiagFiles] : n \in 0..MaxBatch}

\* The files picked, none left out.
SliceAll(files, n) == files

\* files.slice(0, n)
Slice(files, n) == SubSeq(files, 1, IF n < Len(files) THEN n ELSE Len(files))
\* prev.filter((_, i) => i !== index), with positions counted from 1
RemoveAt(list, index) ==
    IF index \in 1..Len(list)
    THEN SubSeq(list, 1, index - 1) \o SubSeq(list, index + 1, Len(list))
    ELSE list

\* Texts of the toasts of the page.
EnterSymptomsToast == "Please enter your symptoms"
SelectImageToast == "Please select at least one image"
AnalysisCompleteToast == "Analysis complete!"
ImageCompleteToast == "Image analysis complete!"
InsufficientCreditsToast ==
    "Insufficient credits! Please purchase more credits to continue."
TextTimeoutToast ==
    "Analysis is taking longer than expected. Please try again with shorter symptoms or check your connection."
ImageSlowToast ==
    "Image analysis is taking longer than expected. Please try again with a smaller image or check your connection."
NetworkToast == "Network error. Please check your internet connection and try again."
DiagnosisFailedToast == "Diagnosis failed: "
ImageAnalysisFailedToast == "Image analysis failed: "
MaxSelectedToast == "Maximum 5 images already selected"
AddedMaxToast == "Added image(s). Maximum 5 images allowed."
AddedToast == "Added image(s)"

\* A toast: its level, its text, the error message or the count put into it.
Toast(level, text, detail, n) ==
    [level |-> level, text |-> text, detail |-> detail, n |-> n]
NoToast == Toast("none", "", "", 0)

\* Messages of the backend about credits: the two markers the pages look for
\* inside a longer text, and a wording they do not look for.
CreditErrors ==
    {"Insufficient credits. Please purchase more credits.",
     "Error: insufficient_credits",
     "insufficient credits"}

\* The words of a message, as String.prototype.includes sees them: matching
\* is by case-sensitive comparison.
Words(message) ==
    CASE message = TimeoutMsg ->
            <<"The", "request", "is", "taking", "longer", "than", "expected.",
              "Please", "try", "again.">>
      [] message = ImageTimeoutMsg ->
            <<"Image", "analysis", "timeout", "-", "please", "try", "again">>
      [] message = NetworkErrorMsg -> <<"Network", "error", "occurred">>
      [] message = RequestFailedMsg -> <<"Request", "failed">>
      [] message = ImageFailedMsg -> <<"Image", "analysis", "failed">>
      [] message = FailedToFetchMsg -> <<"Failed", "to", "fetch">>
      [] message = JsonParseMsg -> <<"Unexpected", "token", "<", "in", "JSON">>
      [] message = "Insufficient credits" -> <<"Insufficient", "credits">>
      [] message = "Insufficient credits. Please purchase more credits." ->
            <<"Insufficient", "credits", ".", "Please", "purchase", "more",
              "credits", ".">>
      [] message = "Error: insufficient_credits" ->
            <<"Error:", "insufficient_credits">>
      [] message = "insufficient credits" -> <<"insufficient", "credits">>
      [] message = "Invalid credentials" -> <<"Invalid", "credentials">>
      [] OTHER -> <<message>>

\* errorMessage.includes(needle)
Includes(message, needle) ==
    LET w == Words(message)
        n == Words(needle)
    IN \E i \in 0..(Len(w) - Len(n)) : \A j \in 1..Len(n) : w[i + j] = n[j]

\* What a diagnosis call settles with: the response (its `result` and
\* `credits_remaining`), or a rejection of the gateway method.
DiagResolved(result, credits) ==
    [ok |-> TRUE, result |-> result, credits |-> credits, message |-> ""]
DiagRejected(message) ==
    [ok |-> FALSE, result |-> NoDiagnosis, credits |-> Undefined, message |-> message]
NoDiagReply == DiagRejected("<none>")
\* The rejections a method of the gateway can produce.
RejectionsOf(method) ==
    {CatchBlock(ExecutorOf(method), e).message :
        e \in {AbortError, FetchTypeError, JsonSyntaxError}}
    \cup {AfterBody(ExecutorOf(method), FALSE, body).message :
             body \in Bodies \cup [error : CreditErrors]}
DiagReplies(method) ==
    {DiagResolved(r, c) : r \in DiagnosisResults, c \in CreditsRemaining}
    \cup {DiagRejected(m) : m \in RejectionsOf(method)}

NoCall == [kind |-> "none", before |-> NoDiagnosis, images |-> 0]
NoAttempt == [kind |-> "none", before |-> NoDiagnosis, reply |-> NoDiagReply]

DiagInit ==
    /\ dg_symptoms = ""
    /\ dg_loading = FALSE
    /\ dg_result = NoDiagnosis
    /\ dg_selectedImages = <<>>
    /\ dg_imagePreviews = <<>>
    /\ dg_readers = <<>>
    /\ dg_showBuyCredits = FALSE
    /\ dg_credits = Undefined
    /\ dg_call = NoCall
    /\ dg_toast = NoToast
    /\ dg_settled = NoAttempt

DiagQuiet == dg_toast' = NoToast /\ dg_settled' = NoAttempt

\* The start of an attempt that keeps the result of the previous one.
ResultAtStartKept(result) == result

\* setLoading(true); setResult(null): the result the page holds once an
\* attempt has started.
ResultAtStart(result) == NoDiagnosis

\* The catch block of handleTextDiagnosis / handleImageDiagnosis: the toast
\* for a rejection, and whether the buy-credits modal is opened.
CatchToast(kind, errorMessage) ==
    IF Includes(errorMessage, "Insufficient credits")
          \/ Includes(errorMessage, "insufficient_credits")
    THEN [toast |-> Toast("error", InsufficientCreditsToast, "", 0), buy |-> TRUE]
    ELSE IF Includes(errorMessage, "timeout")
    THEN [toast |-> Toast("error",
                          IF kind = "image" THEN ImageSlowToast ELSE TextTimeoutToast,
                          "", 0),
          buy |-> FALSE]
    ELSE IF Includes(errorMessage, "network")
    THEN [toast |-> Toast("error", NetworkToast, "", 0), buy |-> FALSE]
    ELSE [toast |-> Toast("error",
                          IF kind = "image" THEN ImageAnalysisFailedToast
                          ELSE DiagnosisFailedToast,
                          errorMessage, 0),
          buy |-> FALSE]

\* The symptoms field changes.
SetSymptoms(text) ==
    /\ page = "diagnose"
    /\ text # dg_symptoms
    /\ dg_symptoms' = text
    /\ DiagQuiet
    /\ UNCHANGED <<dg_loading, dg_result, dg_selectedImages, dg_imagePreviews,
                   dg_readers, dg_showBuyCredits, dg_credits, dg_call>>
    /\ DiagFrame

\* handleTextDiagnosis up to `await api.diagnose(symptoms)`.
HandleTextDiagnosis ==
    /\ page = "diagnose"
    /\ ~dg_loading
    /\ IF Trim(dg_symptoms) = ""
       THEN /\ dg_toast' = Toast("error", EnterSymptomsToast, "", 0)
            /\ UNCHANGED <<dg_loading, dg_result, dg_call>>
       ELSE /\ dg_loading' = TRUE
            /\ dg_result' = ResultAtStart(dg_result)
            /\ dg_call' = [kind |-> "text", before |-> dg_result, images |-> 0]
            /\ dg_toast' = NoToast
    /\ dg_settled' = NoAttempt
    /\ UNCHANGED <<dg_symptoms, dg_selectedImages, dg_imagePreviews, dg_readers,
                   dg_showBuyCredits, dg_credits>>
    /\ DiagFrame

\* handleImageDiagnosis up to `await api.diagnoseImage(selectedImages[0], symptoms)`.
HandleImageDiagnosis ==
    /\ page = "diagnose"
    /\ ~dg_loading
    /\ IF Len(dg_selectedImages) = 0
       THEN /\ dg_toast' = Toast("error", SelectImageToast, "", 0)
            /\ UNCHANGED <<dg_loading, dg_result, dg_call>>
       ELSE /\ dg_loading' = TRUE
            /\ dg_result' = ResultAtStart(dg_result)
            /\ dg_call' = [kind |-> "image", before |-> dg_result,
                           images |-> Len(dg_selectedImages)]
            /\ dg_toast' = NoToast
    /\ dg_settled' = NoAttempt
    /\ UNCHANGED <<dg_symptoms, dg_selectedImages, dg_imagePreviews, dg_readers,
                   dg_showBuyCredits, dg_credits>>
    /\ DiagFrame

\* The rest of a diagnosis handler, once the gateway call settled with reply:
\* try, catch and finally.
DiagnosisSettles(kind, reply) ==
    /\ page = "diagnose"
    /\ dg_call.kind = kind
    /\ IF reply.ok
       THEN /\ dg_result' = reply.result
            /\ dg_toast' = IF kind = "image"
                           THEN Toast("success", ImageCompleteToast, "", dg_call.images)
                           ELSE Toast("success", AnalysisCompleteToast, "", 0)
            /\ dg_credits' = IF reply.credits # Undefined THEN reply.credits
                             ELSE dg_credits
            /\ UNCHANGED dg_showBuyCredits
       ELSE /\ dg_toast' = CatchToast(kind, reply.message).toast
            /\ dg_showBuyCredits' = (dg_showBuyCredits
                                       \/ CatchToast(kind, reply.message).buy)
            /\ UNCHANGED <<dg_result, dg_credits>>
    /\ dg_loading' = FALSE
    /\ dg_settled' = [kind |-> kind, before |-> dg_call.before, reply |-> reply]
    /\ dg_call' = NoCall
    /\ UNCHANGED <<dg_symptoms, dg_selectedImages, dg_imagePreviews, dg_readers>>
    /\ DiagFrame

TextDiagnosisSettles(reply) ==
    /\ reply \in DiagReplies("diagnose")
    /\ DiagnosisSettles("text", reply)

ImageDiagnosisSettles(reply) ==
    /\ reply \in DiagReplies("diagnoseImage")
    /\ DiagnosisSettles("image", reply)

\* handleImageSelect: the files picked in the file input.
HandleImageSelect(files) ==
    /\ page = "diagnose"
    /\ Len(dg_readers) < MaxReaders
    /\ IF Len(files) > 0
       THEN LET remainingSlots == MaxImages - Len(dg_selectedImages)
                filesToAdd == Slice(files, remainingSlots)
            IN IF Len(filesToAdd) = 0
               THEN /\ dg_toast' = Toast("error", MaxSelectedToast, "", 0)
                    /\ UNCHANGED <<dg_selectedImages, dg_readers>>
               ELSE /\ dg_selectedImages' = dg_selectedImages \o filesToAdd
                    /\ dg_readers' = Append(dg_readers,
                                            [files |-> filesToAdd,
                                             newPreviews |-> <<>>,
                                             left |-> 1..Len(filesToAdd)])
                    /\ dg_toast' = IF Len(files) > remainingSlots
                                   THEN Toast("info", AddedMaxToast, "", Len(filesToAdd))
                                   ELSE Toast("success", AddedToast, "", Len(filesToAdd))
       ELSE /\ dg_toast' = NoToast
            /\ UNCHANGED <<dg_selectedImages, dg_readers>>
    /\ dg_settled' = NoAttempt
    /\ UNCHANGED <<dg_symptoms, dg_loading, dg_result, dg_imagePreviews,
                   dg_showBuyCredits, dg_credits, dg_call>>
    /\ DiagFrame

\* reader.onloadend for file k of batch b: the preview is pushed, and the
\* batch's previews are appended once all its readers have finished.
ReaderLoadEnd(b, k) ==
    /\ page = "diagnose"
    /\ b \in 1..Len(dg_readers)
    /\ k \in dg_readers[b].left
    /\ LET batch == dg_readers[b]
           newPreviews == Append(batch.newPreviews, DataUrl(batch.files[k]))
       IN IF batch.left = {k}
          THEN /\ dg_imagePreviews' = dg_imagePreviews \o newPreviews
               /\ dg_readers' = RemoveAt(dg_readers, b)
          ELSE /\ dg_readers' = [dg_readers EXCEPT
                                   ![b] = [files |-> batch.files,
                                           newPreviews |-> newPreviews,
                                           left |-> batch.left \ {k}]]
               /\ UNCHANGED dg_imagePreviews
    /\ DiagQuiet
    /\ UNCHANGED <<dg_symptoms, dg_loading, dg_result, dg_selectedImages,
                   dg_showBuyCredits, dg_credits, dg_call>>
    /\ DiagFrame

\* removeImage(index), from the button on the preview at that position.
RemoveImage(index) ==
    /\ page = "diagnose"
    /\ index \in 1..Len(dg_imagePreviews)
    /\ dg_selectedImages' = RemoveAt(dg_selectedImages, index)
    /\ dg_imagePreviews' = RemoveAt(dg_imagePreviews, index)
    /\ DiagQuiet
    /\ UNCHANGED <<dg_symptoms, dg_loading, dg_result, dg_readers,
                   dg_showBuyCredits, dg_credits, dg_call>>
    /\ DiagFrame

\* The buy-credits modal is closed: onClose={() => setShowBuyCredits(false)}.
CloseBuyCredits ==
    /\ page = "diagnose"
    /\ dg_showBuyCredits
    /\ dg_showBuyCredits' = FALSE
    /\ DiagQuiet
    /\ UNCHANGED <<dg_symptoms, dg_loading, dg_result, dg_selectedImages,
                   dg_imagePreviews, dg_readers, dg_credits, dg_call>>
    /\ DiagFrame

(***************************************************************************)
(* Claims about the Diagnose page, checked under SpecDiag.                 *)
(***************************************************************************)
\* The last step completed an image diagnosis that diagnoseImage rejected
\* with its timeout error.
ImageTimedOut ==
    /\ dg_settled.kind = "image"
    /\ ~dg_settled.reply.ok
    /\ dg_settled.reply.message = ImageTimeoutMsg

\* C10 (as stated). When diagnoseImage rejects with the timeout error, the
\* diagnosis result the page holds after the failed attempt is the same as the
\* one it held before the attempt was started.
C10_ResultSameAsBefore ==
    ImageTimedOut => dg_result = dg_settled.before

\* C10 (amended). When diagnoseImage rejects with the timeout error, the page
\* holds no diagnosis result: the result was cleared when the attempt started,
\* stays cleared while the call is in flight, and the failed attempt stores
\* none. It equals the result held before the attempt only if there was none.
C10_ResultClearedOnTimeout ==
    /\ dg_call.kind # "none" => dg_result = NoDiagnosis
    /\ ImageTimedOut =>
         /\ dg_result = NoDiagnosis
         /\ ~dg_loading
         /\ dg_toast = Toast("error", ImageSlowToast, "", 0)
         /\ (dg_result = dg_settled.before) <=> (dg_settled.before = NoDiagnosis)

\* C10 witness: an image diagnosis started while a diagnosis was displayed
\* timed out, and the page now shows none.
C10_Witness ==
    /\ ImageTimedOut
    /\ dg_settled.before \in DiagnosisResults
    /\ dg_result = NoDiagnosis

\* The last step completed a diagnosis of the given kind that its gateway
\* method rejected with the timeout error of its executor.
DiagnosisTimedOut(kind, method) ==
    /\ dg_settled.kind = kind
    /\ ~dg_settled.reply.ok
    /\ dg_settled.reply.message = CatchBlock(ExecutorOf(method), AbortError).message

\* C25. When a diagnosis call is rejected with the executor's timeout error,
\* the Diagnose page presents its timeout-specific message and not the generic
\* 'failed' message, for text diagnosis as well as for image diagnosis.
C25_TimeoutToastShown ==
    /\ DiagnosisTimedOut("text", "diagnose") =>
         dg_toast = Toast("error", TextTimeoutToast, "", 0)
    /\ DiagnosisTimedOut("image", "diagnoseImage") =>
         dg_toast = Toast("error", ImageSlowToast, "", 0)

\* C21. After any sequence of image selections and removals on the Diagnose
\* page, the number of selected images is at most 5; a selection made when 5
\* images are already selected adds nothing.
C21_AtMostFiveImages ==
    [][/\ Len(dg_selectedImages') <= 5
       /\ (dg_toast' = Toast("error", MaxSelectedToast, "", 0)) =>
            /\ Len(dg_selectedImages) = 5
            /\ dg_selectedImages' = dg_selectedImages
            /\ dg_readers' = dg_readers
            /\ dg_imagePreviews' = dg_imagePreviews
       /\ Len(dg_selectedImages) = 5 =>
            \/ dg_selectedImages' = dg_selectedImages
            \/ Len(dg_selectedImages') < 5]_vars

\* C21 witness: with 5 images selected, a further selection was refused.
C21_Witness ==
    /\ Len(dg_selectedImages) = 5
    /\ dg_toast = Toast("error", MaxSelectedToast, "", 0)

(***************************************************************************)
(* THE CHAT PAGE (Chat).                                                   *)
(***************************************************************************)
\* Texts of the input field.
ChatTexts == {"", " ", "hi"}
\* Identifiers of the conversations the backend has stored.
ChatIds == {1}

\* The id of a message: Date.now().toString() for one made by handleSend,
\* `${chat.id}-user` / `${chat.id}-ai` for one made from the history.
TimeId(ms) == [src |-> "now", n |-> ms, part |-> ""]
HistoryId(chat, part) == [src |-> "chat", n |-> chat, part |-> part]
Message(id, sender) == [id |-> id, sender |-> sender]

\* response.chats.map(chat => [user message, ai message]).flat()
RECURSIVE HistoryOf(_)
HistoryOf(chats) ==
    IF chats = <<>> THEN <<>>
    ELSE <<Message(HistoryId(Head(chats), "user"), "user"),
           Message(HistoryId(Head(chats), "ai"), "ai")>> \o HistoryOf(Tail(chats))

\* prev.filter((m) => m.id !== id)
RECURSIVE WithoutId(_, _)
WithoutId(list, id) ==
    IF list = <<>> THEN <<>>
    ELSE IF Head(list).id # id
         THEN <<Head(list)>> \o WithoutId(Tail(list), id)
         ELSE WithoutId(Tail(list), id)

ChatFailedToast == "Failed to get response"

\* What getChatHistory settles with.
HistoryResolved(chats) == [ok |-> TRUE, chats |-> chats]
HistoryRejected == [ok |-> FALSE, chats |-> <<>>]
HistoryReplies ==
    {HistoryResolved(chats) : chats \in {<<>>} \cup {<<c>> : c \in ChatIds}}
    \cup {HistoryRejected}

\* What sendChatMessage settles with: the response (its `credits_remaining`),
\* or a rejection of the gateway method.
ChatResolved(credits) == [ok |-> TRUE, credits |-> credits, message |-> ""]
ChatRejected(message) == [ok |-> FALSE, credits |-> Undefined, message |-> message]
NoChatReply == ChatRejected("<none>")
ChatReplies ==
    {ChatResolved(c) : c \in CreditsRemaining}
    \cup {ChatRejected(m) : m \in RejectionsOf("sendChatMessage")}

NoSend == [sent |-> FALSE, id |-> TimeId(0)]
NoSendSettled ==
    [sent |-> FALSE, id |-> TimeId(0), reply |-> NoChatReply, before |-> <<>>]

ChatInit ==
    /\ ch_messages = <<>>
    /\ ch_input = ""
    /\ ch_loading = FALSE
    /\ ch_showBuyCredits = FALSE
    /\ ch_credits = Undefined
    /\ ch_now = 0
    /\ ch_history = "idle"
    /\ ch_call = NoSend
    /\ ch_toast = NoToast
    /\ ch_settled = NoSendSettled

ChatQuiet == ch_toast' = NoToast /\ ch_settled' = NoSendSettled

\* The catch block of handleSend without its test for the credits markers.
ChatCatchNoCreditsTest(errorMessage) ==
    [toast |-> Toast("error", ChatFailedToast, "", 0), buy |-> FALSE]

\* The catch block of handleSend: the toast for a rejection, and whether the
\* buy-credits modal is opened.
ChatCatch(errorMessage) ==
    IF Includes(errorMessage, "Insufficient credits")
          \/ Includes(errorMessage, "insufficient_credits")
    THEN [toast |-> Toast("error", InsufficientCreditsToast, "", 0), buy |-> TRUE]
    ELSE [toast |-> Toast("error", ChatFailedToast, "", 0), buy |-> FALSE]

\* useEffect(() => { loadChatHistory(); }, []) up to `await api.getChatHistory(1, 20)`.
ChatMount ==
    /\ page = "chat"
    /\ ch_history = "idle"
    /\ ch_history' = "pending"
    /\ ChatQuiet
    /\ UNCHANGED <<ch_messages, ch_input, ch_loading, ch_showBuyCredits,
                   ch_credits, ch_now, ch_call>>
    /\ ChatFrame

\* The rest of loadChatHistory, once getChatHistory settled with reply.
ChatHistorySettles(reply) ==
    /\ page = "chat"
    /\ ch_history = "pending"
    /\ ch_history' = "done"
    /\ ch_messages' = IF reply.ok THEN HistoryOf(reply.chats) ELSE ch_messages
    /\ ChatQuiet
    /\ UNCHANGED <<ch_input, ch_loading, ch_showBuyCredits, ch_credits, ch_now,
                   ch_call>>
    /\ ChatFrame

\* A millisecond passes.
ChatTick ==
    /\ page = "chat"
    /\ ch_history # "idle"
    /\ ch_now < MaxNow
    /\ ch_now' = ch_now + 1
    /\ ChatQuiet
    /\ UNCHANGED <<ch_messages, ch_input, ch_loading, ch_showBuyCredits,
                   ch_credits, ch_history, ch_call>>
    /\ ChatFrame

\* The input changes: typed (the field is disabled while loading), or the
\* transcript of a voice recognition started earlier.
ChatSetInput(text) ==
    /\ page = "chat"
    /\ ch_history # "idle"
    /\ text # ch_input
    /\ ch_input' = text
    /\ ChatQuiet
    /\ UNCHANGED <<ch_messages, ch_loading, ch_showBuyCredits, ch_credits,
                   ch_now, ch_history, ch_call>>
    /\ ChatFrame

\* handleSend up to `await api.sendChatMessage(input)`: from the send button
\* or the Enter key of the input field, both disabled while loading.
HandleSend ==
    /\ page = "chat"
    /\ ch_history # "idle"
    /\ ~ch_loading
    /\ Len(ch_messages) + 2 <= MaxChat
    /\ IF Trim(ch_input) = ""
       THEN UNCHANGED <<ch_messages, ch_input, ch_loading, ch_call>>
       ELSE /\ ch_messages' = Append(ch_messages, Message(TimeId(ch_now), "user"))
            /\ ch_input' = ""
            /\ ch_loading' = TRUE
            /\ ch_call' = [sent |-> TRUE, id |-> TimeId(ch_now)]
    /\ ChatQuiet
    /\ UNCHANGED <<ch_showBuyCredits, ch_credits, ch_now, ch_history>>
    /\ ChatFrame

\* The rest of handleSend, once sendChatMessage settled with reply: try, catch
\* and finally. The backend's reply takes a millisecond at least; a rejection
\* (offline, for one) may come at once.
ChatSendSettles(reply) ==
    /\ page = "chat"
    /\ ch_call.sent
    /\ reply.ok => ch_now > ch_call.id.n
    /\ IF reply.ok
       THEN /\ ch_messages' = Append(ch_messages,
                                     Message(TimeId(ch_now + 1), "ai"))
            /\ ch_credits' = IF reply.credits # Undefined THEN reply.credits
                             ELSE ch_credits
            /\ ch_toast' = NoToast
            /\ UNCHANGED ch_showBuyCredits
       ELSE /\ ch_toast' = ChatCatch(reply.message).toast
            /\ ch_showBuyCredits' = (ch_showBuyCredits
                                       \/ ChatCatch(reply.message).buy)
            /\ ch_messages' = WithoutId(ch_messages, ch_call.id)
            /\ UNCHANGED ch_credits
    /\ ch_loading' = FALSE
    /\ ch_settled' = [sent |-> TRUE, id |-> ch_call.id, reply |-> reply,
                      before |-> ch_messages]
    /\ ch_call' = NoSend
    /\ UNCHANGED <<ch_input, ch_now, ch_history>>
    /\ ChatFrame

\* The buy-credits modal is closed: onClose={() => setShowBuyCredits(false)}.
ChatCloseBuyCredits ==
    /\ page = "chat"
    /\ ch_showBuyCredits
    /\ ch_showBuyCredits' = FALSE
    /\ ChatQuiet
    /\ UNCHANGED <<ch_messages, ch_input, ch_loading, ch_credits, ch_now,
                   ch_history, ch_call>>
    /\ ChatFrame

(***************************************************************************)
(* THE SETTINGS PAGE (Settings): account deletion.                         *)
(***************************************************************************)
\* if (accountCode.length !== 6)
CodeLength == 6
\* <InputOTP maxLength={6}>
OtpMaxLength == 6
\* Characters the code field is filled with.
OtpDigits == {"7"}
\* Values of the code field.
Codes == UNION {[1..n -> OtpDigits] : n \in 0..OtpMaxLength}

CodeSentToast == "Verification code sent to your email"
EnterCodeToast == "Please enter the 6-digit verification code"
AccountDeletedToast == "Your account has been deleted"

\* What a request of the page settles with: fulfilled, or rejected with the
\* message of the gateway's error.
RequestFulfilled == [ok |-> TRUE, message |-> ""]
RequestRejected(message) == [ok |-> FALSE, message |-> message]
SettingsReplies(method) == {RequestFulfilled} \cup {RequestRejected(m) : m \in RejectionsOf(method)}

SettingsInit ==
    /\ st_sendingDeletionCode = FALSE
    /\ st_accountCode = <<>>
    /\ st_codeSent = FALSE
    /\ st_accountDeleting = FALSE
    /\ st_call = "none"
    /\ st_codeOk = FALSE
    /\ st_toast = NoToast

\* handleSendAccountDeletionCode sets codeSent whatever the request's outcome.
CodeSentAfterAlways(ok, codeSent) == TRUE

\* codeSent after `await api.requestAccountDeletionCode()` settled:
\* setCodeSent(true) is in the try block, after the await.
CodeSentAfter(ok, codeSent) == IF ok THEN TRUE ELSE codeSent

\* handleSendAccountDeletionCode up to the await: from the "Send Verification
\* Code" button, rendered while !codeSent and disabled while sending.
HandleSendAccountDeletionCode ==
    /\ page = "settings"
    /\ ~st_codeSent
    /\ ~st_sendingDeletionCode
    /\ st_sendingDeletionCode' = TRUE
    /\ st_toast' = NoToast
    /\ UNCHANGED <<st_accountCode, st_codeSent, st_accountDeleting, st_call, st_codeOk>>
    /\ UNCHANGED <<registerVars, resetVars, page>>
    /\ FormFrame

\* The rest of handleSendAccountDeletionCode, once the request settled.
SendCodeSettles(reply) ==
    /\ page = "settings"
    /\ st_sendingDeletionCode
    /\ st_codeSent' = CodeSentAfter(reply.ok, st_codeSent)
    /\ st_codeOk' = (st_codeOk \/ reply.ok)
    /\ st_toast' = IF reply.ok THEN Toast("success", CodeSentToast, "", 0)
                   ELSE Toast("error", reply.message, "", 0)
    /\ st_sendingDeletionCode' = FALSE
    /\ UNCHANGED <<st_accountCode, st_accountDeleting, st_call>>
    /\ UNCHANGED <<registerVars, resetVars, page>>
    /\ FormFrame

\* The code field changes: rendered once codeSent, disabled while deleting.
SetAccountCode(value) ==
    /\ page = "settings"
    /\ st_codeSent
    /\ ~st_accountDeleting
    /\ value # st_accountCode
    /\ st_accountCode' = value
    /\ st_toast' = NoToast
    /\ UNCHANGED <<st_sendingDeletionCode, st_codeSent, st_accountDeleting,
                   st_call, st_codeOk>>
    /\ UNCHANGED <<registerVars, resetVars, page>>
    /\ FormFrame

\* handleDeleteAccount up to `await api.confirmAccountDeletion(accountCode)`:
\* from the "Confirm & Delete Account" button, rendered once codeSent and
\* disabled while deleting.
HandleDeleteAccount ==
    /\ page = "settings"
    /\ st_codeSent
    /\ ~st_accountDeleting
    /\ IF Len(st_accountCode) # CodeLength
       THEN /\ st_toast' = Toast("error", EnterCodeToast, "", 0)
            /\ UNCHANGED <<st_accountDeleting, st_call>>
       ELSE /\ st_accountDeleting' = TRUE
            /\ st_call' = "confirm"
            /\ st_toast' = NoToast
    /\ UNCHANGED <<st_sendingDeletionCode, st_accountCode, st_codeSent, st_codeOk>>
    /\ UNCHANGED <<registerVars, resetVars, page>>
    /\ FormFrame

\* handleDeleteAccount once confirmAccountDeletion settled: on success up to
\* `await checkAuth()`, on failure its catch and finally blocks.
ConfirmDeletionSettles(reply) ==
    /\ page = "settings"
    /\ st_call = "confirm"
    /\ IF reply.ok
       THEN /\ st_toast' = Toast("success", AccountDeletedToast, "", 0)
            /\ st_accountCode' = <<>>
            /\ st_codeSent' = FALSE
            /\ st_call' = "checkAuth"
            /\ UNCHANGED st_accountDeleting
       ELSE /\ st_toast' = Toast("error", reply.message, "", 0)
            /\ st_accountDeleting' = FALSE
            /\ st_call' = "none"
            /\ UNCHANGED <<st_accountCode, st_codeSent>>
    /\ UNCHANGED <<st_sendingDeletionCode, st_codeOk>>
    /\ UNCHANGED <<registerVars, resetVars, page>>
    /\ FormFrame

(***************************************************************************)
(* THE REGISTER FORM (Auth) AND THE RESET FORM (ResetPassword).            *)
(***************************************************************************)
\* password.length >= 8
MinPasswordLength == 8
\* registerData.username.length < 3 || registerData.username.length > 20
MinUsernameLength == 3
MaxUsernameLength == 20

\* Texts typed as passwords: two that meet every requirement, and one that
\* misses each requirement in turn (length, uppercase, lowercase, digit,
\* special character), the last with a punctuation mark outside the set the
\* pages accept.
TypedPasswords ==
    {"Abcdef1!", "Xyzdef1?", "Abcde1!", "abcdef1!", "ABCDEF1!", "Abcdefg!",
     "Abcdefg1", "Abcdef1_"}
\* Texts typed as usernames: valid, too short, with a space, too long.
Usernames == {"bob", "ab", "b b", "abcdefghijklmnopqrstu"}

\* The characters of a text.
Chars(text) ==
    CASE text = "" -> <<>>
      [] text = "Abcdef1!" -> <<"A", "b", "c", "d", "e", "f", "1", "!">>
      [] text = "Xyzdef1?" -> <<"X", "y", "z", "d", "e", "f", "1", "?">>
      [] text = "Abcde1!" -> <<"A", "b", "c", "d", "e", "1", "!">>
      [] text = "abcdef1!" -> <<"a", "b", "c", "d", "e", "f", "1", "!">>
      [] text = "ABCDEF1!" -> <<"A", "B", "C", "D", "E", "F", "1", "!">>
      [] text = "Abcdefg!" -> <<"A", "b", "c", "d", "e", "f", "g", "!">>
      [] text = "Abcdefg1" -> <<"A", "b", "c", "d", "e", "f", "g", "1">>
      [] text = "Abcdef1_" -> <<"A", "b", "c", "d", "e", "f", "1", "_">>
      [] text = "bob" -> <<"b", "o", "b">>
      [] text = "ab" -> <<"a", "b">>
      [] text = "b b" -> <<"b", " ", "b">>
      [] text = "abcdefghijklmnopqrstu" -> <<"a", "b", "c", "d", "e", "f", "g", "h", "i", "j", "k", "l", "m", "n", "o", "p", "q", "r", "s", "t", "u">>

\* text.length
Length(text) == Len(Chars(text))

\* /[A-Z]/
UpperCase ==
    {"A", "B", "C", "D", "E", "F", "G", "H", "I", "J", "K", "L", "M", "N",
     "O", "P", "Q", "R", "S", "T", "U", "V", "W", "X", "Y", "Z"}
\* /[a-z]/
LowerCase ==
    {"a", "b", "c", "d", "e", "f", "g", "h", "i", "j", "k", "l", "m", "n",
     "o", "p", "q", "r", "s", "t", "u", "v", "w", "x", "y", "z"}
\* /\d/
Digit == {"0", "1", "2", "3", "4", "5", "6", "7", "8", "9"}
\* /[!@#$%^&*(),.?":{}|<>]/
Special ==
    {"!", "@", "#", "$", "%", "^", "&", "*", "(", ")", ",", ".", "?", "\"",
     ":", "{", "}", "|", "<", ">"}

\* regex.test(text) for a character class: some character is in the class.
Test(class, text) == \E i \in 1..Length(text) : Chars(text)[i] \in class
\* /^[a-zA-Z0-9_]+$/.test(text)
WordOnly(text) ==
    /\ Length(text) > 0
    /\ \A i \in 1..Length(text) :
         Chars(text)[i] \in UpperCase \cup LowerCase \cup Digit \cup {"_"}

\* The strength computed without the test of the length.
StrengthOfNoLength(password) ==
    [length |-> TRUE,
     uppercase |-> Test(UpperCase, password),
     lowercase |-> Test(LowerCase, password),
     digit |-> Test(Digit, password),
     special |-> Test(Special, password)]

\* The effect on the password: setPasswordStrength({...}).
StrengthOf(password) ==
    [length |-> Length(password) >= MinPasswordLength,
     uppercase |-> Test(UpperCase, password),
     lowercase |-> Test(LowerCase, password),
     digit |-> Test(Digit, password),
     special |-> Test(Special, password)]

\* Object.values(passwordStrength).every(Boolean)
EveryBoolean(passwordStrength) ==
    /\ passwordStrength.length
    /\ passwordStrength.uppercase
    /\ passwordStrength.lowercase
    /\ passwordStrength.digit
    /\ passwordStrength.special

UsernameLengthToast == "Username must be between 3 and 20 characters"
UsernameCharsToast == "Username can only contain letters, numbers, and underscores"
WeakPasswordToast == "Password does not meet security requirements"
MismatchToast == "TypedPasswords do not match"
WeakResetToast == "Password does not meet strength requirements"
InvalidTokenToast == "Invalid reset token"

RegisterInit ==
    /\ au_registerData = [username |-> "", password |-> "", confirmPassword |-> ""]
    /\ au_passwordStrength = StrengthOf("")
    /\ au_loading = FALSE
    /\ au_toast = NoToast

\* A field of the register form changes; after a change of the password the
\* effect on registerData.password recomputes passwordStrength before the
\* next event is handled.
SetRegisterData(field, text) ==
    /\ page = "auth"
    /\ text # au_registerData[field]
    /\ au_registerData' = [au_registerData EXCEPT ![field] = text]
    /\ au_passwordStrength' = StrengthOf(au_registerData'.password)
    /\ au_toast' = NoToast
    /\ UNCHANGED au_loading
    /\ UNCHANGED <<settingsVars, resetVars, page>>
    /\ FormFrame

\* handleRegister up to `await register(...)`: the form is submitted only
\* with every `required` field filled and while the submit button is enabled.
HandleRegister ==
    /\ page = "auth"
    /\ ~au_loading
    /\ au_registerData.username # ""
    /\ au_registerData.password # ""
    /\ au_registerData.confirmPassword # ""
    /\ IF \/ Length(au_registerData.username) < MinUsernameLength
          \/ Length(au_registerData.username) > MaxUsernameLength
       THEN /\ au_toast' = Toast("error", UsernameLengthToast, "", 0)
            /\ UNCHANGED au_loading
       ELSE IF ~WordOnly(au_registerData.username)
       THEN /\ au_toast' = Toast("error", UsernameCharsToast, "", 0)
            /\ UNCHANGED au_loading
       ELSE IF ~EveryBoolean(au_passwordStrength)
       THEN /\ au_toast' = Toast("error", WeakPasswordToast, "", 0)
            /\ UNCHANGED au_loading
       ELSE IF au_registerData.password # au_registerData.confirmPassword
       THEN /\ au_toast' = Toast("error", MismatchToast, "", 0)
            /\ UNCHANGED au_loading
       ELSE /\ au_loading' = TRUE
            /\ au_toast' = NoToast
    /\ UNCHANGED <<au_registerData, au_passwordStrength>>
    /\ UNCHANGED <<settingsVars, resetVars, page>>
    /\ FormFrame

\* The rest of handleRegister once register() of the coordinator rejected:
\* the coordinator shows the error, the page's finally block ends loading.
RegisterFails(message) ==
    /\ page = "auth"
    /\ au_loading
    /\ au_toast' = Toast("error", message, "", 0)
    /\ au_loading' = FALSE
    /\ UNCHANGED <<au_registerData, au_passwordStrength>>
    /\ UNCHANGED <<settingsVars, resetVars, page>>
    /\ FormFrame

\* searchParams.get('token') without the parameter
Null == "<null>"

ResetInit ==
    /\ rp_token = Null
    /\ rp_password = ""
    /\ rp_confirmPassword = ""
    /\ rp_passwordStrength = StrengthOf("")
    /\ rp_loading = FALSE
    /\ rp_verifying = TRUE
    /\ rp_tokenValid = FALSE
    /\ rp_toast = NoToast

\* The `token` parameter of the link: missing, empty, or a token.
Tokens == {Null, "", "tok"}
\* !token
NoToken(token) == token = Null \/ token = ""

\* What verifyResetToken settles with: {valid}, or a rejection.
VerifyTokenReplies == {[ok |-> TRUE, valid |-> TRUE], [ok |-> TRUE, valid |-> FALSE],
                  [ok |-> FALSE, valid |-> FALSE]}

\* verifyToken, run by the effect on `token`: without a token it sets the
\* result at once, with one it awaits api.verifyResetToken(token).
VerifyTokenSettles(reply) ==
    /\ page = "reset"
    /\ rp_verifying
    /\ rp_tokenValid' = IF NoToken(rp_token) THEN FALSE
                        ELSE IF reply.ok THEN reply.valid ELSE FALSE
    /\ rp_verifying' = FALSE
    /\ rp_toast' = NoToast
    /\ UNCHANGED <<rp_token, rp_password, rp_confirmPassword, rp_passwordStrength,
                   rp_loading>>
    /\ UNCHANGED <<settingsVars, registerVars, page>>
    /\ FormFrame

\* The form is rendered once the token was verified and found valid.
ResetFormShown == ~rp_verifying /\ rp_tokenValid

\* The password field changes; the effect on `password` recomputes
\* passwordStrength before the next event is handled.
SetPassword(text) ==
    /\ page = "reset"
    /\ ResetFormShown
    /\ text # rp_password
    /\ rp_password' = text
    /\ rp_passwordStrength' = StrengthOf(text)
    /\ rp_toast' = NoToast
    /\ UNCHANGED <<rp_token, rp_confirmPassword, rp_loading, rp_verifying,
                   rp_tokenValid>>
    /\ UNCHANGED <<settingsVars, registerVars, page>>
    /\ FormFrame

\* The confirmation field changes.
SetConfirmPassword(text) ==
    /\ page = "reset"
    /\ ResetFormShown
    /\ text # rp_confirmPassword
    /\ rp_confirmPassword' = text
    /\ rp_toast' = NoToast
    /\ UNCHANGED <<rp_token, rp_password, rp_passwordStrength, rp_loading,
                   rp_verifying, rp_tokenValid>>
    /\ UNCHANGED <<settingsVars, registerVars, page>>
    /\ FormFrame

\* handleSubmit up to `await api.resetPassword(token, password)`: the form is
\* submitted only with both `required` fields filled and while the submit
\* button is enabled (disabled={loading || !isPasswordValid}).
HandleSubmit ==
    /\ page = "reset"
    /\ ResetFormShown
    /\ ~rp_loading
    /\ EveryBoolean(rp_passwordStrength)
    /\ rp_password # ""
    /\ rp_confirmPassword # ""
    /\ IF rp_password # rp_confirmPassword
       THEN /\ rp_toast' = Toast("error", MismatchToast, "", 0)
            /\ UNCHANGED rp_loading
       ELSE IF ~EveryBoolean(rp_passwordStrength)
       THEN /\ rp_toast' = Toast("error", WeakResetToast, "", 0)
            /\ UNCHANGED rp_loading
       ELSE IF NoToken(rp_token)
       THEN /\ rp_toast' = Toast("error", InvalidTokenToast, "", 0)
            /\ UNCHANGED rp_loading
       ELSE /\ rp_loading' = TRUE
            /\ rp_toast' = NoToast
    /\ UNCHANGED <<rp_token, rp_password, rp_confirmPassword, rp_passwordStrength,
                   rp_verifying, rp_tokenValid>>
    /\ UNCHANGED <<settingsVars, registerVars, page>>
    /\ FormFrame

\* The rest of handleSubmit once resetPassword rejected: catch and finally.
ResetFails(message) ==
    /\ page = "reset"
    /\ rp_loading
    /\ rp_toast' = Toast("error", message, "", 0)
    /\ rp_loading' = FALSE
    /\ UNCHANGED <<rp_token, rp_password, rp_confirmPassword, rp_passwordStrength,
                   rp_verifying, rp_tokenValid>>
    /\ UNCHANGED <<settingsVars, registerVars, page>>
    /\ FormFrame

(***************************************************************************)
(* THE ROUTER: one page is mounted at a time.                              *)
(***************************************************************************)
Pages == {"home", "dashboard", "diagnose", "chat", "settings", "auth", "reset"}

\* Page p is mounted, ResetPassword with the token of its link: the page left
\* is unmounted and its state is discarded, and the page entered starts from
\* its initial state.
Mounted(p, token) ==
    /\ page' = p
    /\ dg_symptoms' = ""
    /\ dg_loading' = FALSE
    /\ dg_result' = NoDiagnosis
    /\ dg_selectedImages' = <<>>
    /\ dg_imagePreviews' = <<>>
    /\ dg_readers' = <<>>
    /\ dg_showBuyCredits' = FALSE
    /\ dg_credits' = Undefined
    /\ dg_call' = NoCall
    /\ dg_toast' = NoToast
    /\ dg_settled' = NoAttempt
    /\ ch_messages' = <<>>
    /\ ch_input' = ""
    /\ ch_loading' = FALSE
    /\ ch_showBuyCredits' = FALSE
    /\ ch_credits' = Undefined
    /\ ch_now' = 0
    /\ ch_history' = "idle"
    /\ ch_call' = NoSend
    /\ ch_toast' = NoToast
    /\ ch_settled' = NoSendSettled
    /\ st_sendingDeletionCode' = FALSE
    /\ st_accountCode' = <<>>
    /\ st_codeSent' = FALSE
    /\ st_accountDeleting' = FALSE
    /\ st_call' = "none"
    /\ st_codeOk' = FALSE
    /\ st_toast' = NoToast
    /\ au_registerData' = [username |-> "", password |-> "", confirmPassword |-> ""]
    /\ au_passwordStrength' = StrengthOf("")
    /\ au_loading' = FALSE
    /\ au_toast' = NoToast
    /\ rp_token' = token
    /\ rp_password' = ""
    /\ rp_confirmPassword' = ""
    /\ rp_passwordStrength' = StrengthOf("")
    /\ rp_loading' = FALSE
    /\ rp_verifying' = TRUE
    /\ rp_tokenValid' = FALSE
    /\ rp_toast' = NoToast
    /\ UNCHANGED <<execVars, authVars, payVars>>

\* The user opens page p.
OpenPage(p) ==
    /\ page # p
    /\ \E token \in (IF p = "reset" THEN Tokens ELSE {Null}) : Mounted(p, token)

\* The rest of handleDeleteAccount once checkAuth() settled: navigate('/auth').
DeletionCheckAuthSettles ==
    /\ page = "settings"
    /\ st_call = "checkAuth"
    /\ Mounted("auth", Null)

\* The rest of handleRegister once register() of the coordinator resolved:
\* navigate('/dashboard').
RegisterSucceeds ==
    /\ page = "auth"
    /\ au_loading
    /\ Mounted("dashboard", Null)

\* The rest of handleSubmit once resetPassword resolved: navigate('/auth').
ResetSucceeds ==
    /\ page = "reset"
    /\ rp_loading
    /\ Mounted("auth", Null)

DiagNext ==
    \/ OpenPage("diagnose")
    \/ \E text \in SymptomTexts : SetSymptoms(text)
    \/ HandleTextDiagnosis
    \/ HandleImageDiagnosis
    \/ \E reply \in DiagReplies("diagnose") : TextDiagnosisSettles(reply)
    \/ \E reply \in DiagReplies("diagnoseImage") : ImageDiagnosisSettles(reply)
    \/ \E files \in Batches : HandleImageSelect(files)
    \/ \E b \in 1..MaxReaders, k \in 1..MaxBatch : ReaderLoadEnd(b, k)
    \/ \E index \in 1..(MaxImages + MaxBatch) : RemoveImage(index)
    \/ CloseBuyCredits

ChatNext ==
    \/ OpenPage("chat")
    \/ ChatMount
    \/ \E reply \in HistoryReplies : ChatHistorySettles(reply)
    \/ ChatTick
    \/ \E text \in ChatTexts : ChatSetInput(text)
    \/ HandleSend
    \/ \E reply \in ChatReplies : ChatSendSettles(reply)
    \/ ChatCloseBuyCredits

FormsNext ==
    \/ \E p \in {"settings", "auth", "reset"} : OpenPage(p)
    \/ HandleSendAccountDeletionCode
    \/ \E reply \in SettingsReplies("requestAccountDeletionCode") : SendCodeSettles(reply)
    \/ \E value \in Codes : SetAccountCode(value)
    \/ HandleDeleteAccount
    \/ \E reply \in SettingsReplies("confirmAccountDeletion") : ConfirmDeletionSettles(reply)
    \/ DeletionCheckAuthSettles
    \/ \E text \in Usernames \cup {""} : SetRegisterData("username", text)
    \/ \E field \in {"password", "confirmPassword"}, text \in TypedPasswords \cup {""} :
          SetRegisterData(field, text)
    \/ HandleRegister
    \/ \E m \in RejectionsOf("register") : RegisterFails(m)
    \/ RegisterSucceeds
    \/ \E reply \in VerifyTokenReplies : VerifyTokenSettles(reply)
    \/ \E text \in TypedPasswords \cup {""} : SetPassword(text)
    \/ \E text \in TypedPasswords \cup {""} : SetConfirmPassword(text)
    \/ HandleSubmit
    \/ \E m \in RejectionsOf("resetPassword") : ResetFails(m)
    \/ ResetSucceeds

PagesNext ==
    \/ \E p \in {"home", "diagnose", "chat"} : OpenPage(p)
    \/ \E text \in SymptomTexts : SetSymptoms(text)
    \/ HandleTextDiagnosis
    \/ HandleImageDiagnosis
    \/ \E reply \in DiagReplies("diagnose") : TextDiagnosisSettles(reply)
    \/ \E reply \in DiagReplies("diagnoseImage") : ImageDiagnosisSettles(reply)
    \/ \E files \in Batches : HandleImageSelect(files)
    \/ \E b \in 1..MaxReaders, k \in 1..MaxBatch : ReaderLoadEnd(b, k)
    \/ \E index \in 1..(MaxImages + MaxBatch) : RemoveImage(index)
    \/ CloseBuyCredits
    \/ ChatMount
    \/ \E reply \in HistoryReplies : ChatHistorySettles(reply)
    \/ ChatTick
    \/ \E text \in ChatTexts : ChatSetInput(text)
    \/ HandleSend
    \/ \E reply \in ChatReplies : ChatSendSettles(reply)
    \/ ChatCloseBuyCredits

(***************************************************************************)
(* Claims about the Chat page, checked under SpecChat.                     *)
(***************************************************************************)
\* Position k of the list holds a user message made by handleSend, followed
\* by the AI reply of a send that succeeded.
SentPair(list, k) ==
    /\ k \in 1..(Len(list) - 1)
    /\ list[k].sender = "user"
    /\ list[k].id.src = "now"
    /\ list[k + 1].sender = "ai"
    /\ list[k + 1].id.src = "now"

\* C27. On the Chat page, every user message whose send succeeded stays in
\* the message list followed by its AI reply, whatever the arrival order of
\* responses: the initial chat-history load resolving after a message was sent
\* does not remove that message or its reply from the list.
C27_SentMessagesStay ==
    [][\A k \in 1..Len(ch_messages) :
         SentPair(ch_messages, k) =>
           \E j \in 1..Len(ch_messages') :
              /\ SentPair(ch_messages', j)
              /\ ch_messages'[j] = ch_messages[k]
              /\ ch_messages'[j + 1] = ch_messages[k + 1]]_vars

\* The positions of list that hold a user message with the given id.
UserMessagesAt(list, id) ==
    {k \in 1..Len(list) : list[k].id = id /\ list[k].sender = "user"}

\* The list without the user message that handleSend appended last under the
\* given id, if it is still there.
WithoutSent(list, id) ==
    IF UserMessagesAt(list, id) = {} THEN list
    ELSE RemoveAt(list, CHOOSE k \in UserMessagesAt(list, id) :
                           \A j \in UserMessagesAt(list, id) : j <= k)

\* C28. When sendChatMessage rejects, the Chat page removes exactly the
\* optimistically appended user message, leaves every other message in the
\* list unchanged and in order, appends no AI message, and sets loading back
\* to false.
C28_RejectionRemovesOnlySent ==
    (ch_settled.sent /\ ~ch_settled.reply.ok) =>
        /\ ch_messages = WithoutSent(ch_settled.before, ch_settled.id)
        /\ ~ch_loading

(***************************************************************************)
(* Claims about the pages, checked under SpecPages.                        *)
(***************************************************************************)
\* The message carries one of the two markers of missing credits.
HasCreditsMarker(message) ==
    \/ Includes(message, "Insufficient credits")
    \/ Includes(message, "insufficient_credits")

\* C18. Whenever diagnose, diagnoseImage or sendChatMessage rejects with a
\* message that contains 'Insufficient credits' or 'insufficient_credits', the
\* page opens the buy-credits modal and shows the insufficient-credits message
\* instead of the generic failure message; for a rejection whose message
\* contains neither, the step leaves the modal as it was and shows another
\* message.
C18_CreditsRejectionOpensModal ==
    [][/\ (dg_settled'.kind # "none" /\ ~dg_settled'.reply.ok) =>
            IF HasCreditsMarker(dg_settled'.reply.message)
            THEN /\ dg_showBuyCredits'
                 /\ dg_toast' = Toast("error", InsufficientCreditsToast, "", 0)
            ELSE /\ dg_showBuyCredits' = dg_showBuyCredits
                 /\ dg_toast'.level = "error"
                 /\ dg_toast'.text # InsufficientCreditsToast
       /\ (ch_settled'.sent /\ ~ch_settled'.reply.ok) =>
            IF HasCreditsMarker(ch_settled'.reply.message)
            THEN /\ ch_showBuyCredits'
                 /\ ch_toast' = Toast("error", InsufficientCreditsToast, "", 0)
            ELSE /\ ch_showBuyCredits' = ch_showBuyCredits
                 /\ ch_toast' = Toast("error", ChatFailedToast, "", 0)]_vars

\* C18 witness: sendChatMessage was rejected with a message that carries the
\* marker `insufficient_credits` inside a longer text, and the modal is open.
C18_Witness ==
    /\ page = "chat"
    /\ ch_settled.sent
    /\ ch_settled.reply.message = "Error: insufficient_credits"
    /\ ch_showBuyCredits
    /\ ch_toast = Toast("error", InsufficientCreditsToast, "", 0)

(***************************************************************************)
(* Claims about the forms, checked under SpecForms.                        *)
(***************************************************************************)
\* The step issues the confirmAccountDeletion request.
ConfirmDeletionIssued == st_call # "confirm" /\ st_call' = "confirm"

\* C19. On the Settings page, a confirmAccountDeletion request is issued only
\* after a requestAccountDeletionCode request has succeeded since the page
\* was opened, and only with a verification code of exactly 6 characters;
\* the confirm handler run with any other code length sends no request.
C19_DeletionNeedsCodeRequest ==
    [][/\ ConfirmDeletionIssued =>
            /\ st_codeOk
            /\ Len(st_accountCode) = 6
            /\ st_accountCode' = st_accountCode
       /\ (st_toast' = Toast("error", EnterCodeToast, "", 0)) =>
            /\ Len(st_accountCode) # 6
            /\ st_call' = st_call
            /\ ~st_accountDeleting']_vars

\* C19 witness: the confirm request is in flight, with a 6-character code,
\* after a code request succeeded.
C19_Witness ==
    /\ page = "settings"
    /\ st_call = "confirm"
    /\ st_accountDeleting
    /\ st_codeOk
    /\ Len(st_accountCode) = 6

\* A password as the requirements describe it: at least 8 characters, an
\* uppercase letter, a lowercase letter, a digit and a character that is
\* neither a letter nor a digit.
MeetsRequirements(password) ==
    /\ Length(password) >= 8
    /\ \E i \in 1..Length(password) : Chars(password)[i] \in UpperCase
    /\ \E i \in 1..Length(password) : Chars(password)[i] \in LowerCase
    /\ \E i \in 1..Length(password) : Chars(password)[i] \in Digit
    /\ \E i \in 1..Length(password) :
         Chars(password)[i] \notin UpperCase \cup LowerCase \cup Digit

\* The step issues the register request / the resetPassword request.
RegisterIssued == ~au_loading /\ au_loading'
ResetIssued == ~rp_loading /\ rp_loading'

\* C20. A register request and a resetPassword request are sent only when the
\* entered password has at least 8 characters, an uppercase letter, a
\* lowercase letter, a digit and a special character, and equals the
\* confirmation password; resetPassword additionally requires a reset token
\* to be present. Otherwise no request is sent.
C20_RequestsNeedStrongPassword ==
    [][/\ RegisterIssued =>
            /\ MeetsRequirements(au_registerData.password)
            /\ au_registerData.password = au_registerData.confirmPassword
       /\ ResetIssued =>
            /\ MeetsRequirements(rp_password)
            /\ rp_password = rp_confirmPassword
            /\ rp_token \notin {Null, ""}]_vars

\* C20 witness: a register request is in flight with a password that meets
\* every requirement and equals its confirmation.
C20_Witness ==
    /\ page = "auth"
    /\ au_loading
    /\ au_registerData.password = "Abcdef1!"
    /\ au_registerData.confirmPassword = "Abcdef1!"

Init ==
    /\ ExInit /\ AuthInit /\ PayInit
    /\ DiagInit /\ ChatInit /\ SettingsInit /\ RegisterInit /\ ResetInit
    /\ page = "home"

SpecExec == Init /\ [][ExNext]_vars
Spec == Init /\ [][Next]_vars
SpecLive == Init /\ [][Next]_vars /\ Fairness
SpecPay == Init /\ [][PayNext]_vars
SpecDiag == Init /\ [][DiagNext]_vars
SpecChat == Init /\ [][ChatNext]_vars
SpecPages == Init /\ [][PagesNext]_vars
SpecForms == Init /\ [][FormsNext]_vars

(***************************************************************************)
(* THE COORDINATOR OVER ANY STORED ITEM. localStorage outlives the page and *)
(* is written by whatever ran on the origin before: besides the record of  *)
(* a login, the item may be a string that is no JSON, or JSON without a    *)
(* username or a password.                                                 *)
(***************************************************************************)
\* A string JSON.parse throws on.
NotJson == [form |-> "text", username |-> "", password |-> ""]
StoredItems ==
    {NoCreds, NotJson,
     Stringify(Credentials("", "pw1")), Stringify(Credentials("alice", "")),
     Stringify(Credentials("alice", "pw1"))}

InitStored ==
    /\ ExInit /\ PayInit
    /\ DiagInit /\ ChatInit /\ SettingsInit /\ RegisterInit /\ ResetInit
    /\ page = "home"
    /\ \E item \in StoredItems : AuthStart(item)

SpecStored == InitStored /\ [][Next]_vars

\* The record holds what tryAutoLogin asks for.
Complete(item) == item.form = "json" /\ item.username # "" /\ item.password # ""

\* checkAuth, call i, goes past `await api.checkAuth()` in this step.
ChecksSession(i) ==
    /\ ops[i].kind = "checkAuth" /\ ops[i].pc = "check_wait"
    /\ ops'[i].pc # "check_wait"
    /\ proc' = proc

\* The login request of tryAutoLogin, call i, is rejected in this step.
AutoLoginRejected(i) ==
    /\ ops[i].kind = "checkAuth" /\ ops[i].pc = "login_wait"
    /\ settled'.slot = i /\ ~settled'.reply.ok

\* tryAutoLogin before its request: the request is issued for a complete
\* record only, and a record that is there and not complete is erased with
\* no request.
AutoLoginGuarded ==
    \A i \in OpIds :
       ChecksSession(i) =>
          /\ ops'[i].pc = "login_wait"
               => /\ Complete(stored)
                  /\ ops'[i].req = "login" /\ ops'[i].net = "sent"
                  /\ ops'[i].creds = Parse(stored)
                  /\ stored' = stored
          /\ (ops'[i].pc # "login_wait" /\ settled'.check # "authenticated"
                  /\ stored # NoCreds)
               => /\ ~Complete(stored)
                  /\ stored' = NoCreds
                  /\ settled'.logins = 0
                  /\ ops'[i].net = "none"
                  /\ srvSession' = srvSession

\* C29 as stated: tryAutoLogin issues its login request only for a record
\* that parses and has a username and a password; a record that does not is
\* erased with no request; a rejection of the request erases the record and
\* user is absent after it.
C29_AutoLoginLeavesUserAbsent ==
    [][/\ AutoLoginGuarded
       /\ \A i \in OpIds :
             AutoLoginRejected(i) => (stored' = NoCreds /\ user' = NoUser)]_vars

\* C29, amended: as above, but the rejection leaves user as it is: absent,
\* unless another call has set it since checkAuth cleared it.
C29_AutoLoginKeepsUser ==
    [][/\ AutoLoginGuarded
       /\ \A i \in OpIds :
             AutoLoginRejected(i) => (stored' = NoCreds /\ user' = user)]_vars

\* C29 witness: a record without a password was found and erased, and the
\* call is over with no login request issued.
C29_Witness ==
    /\ settled.kind = "checkAuth"
    /\ settled.check \in {"unauthenticated", "failed"}
    /\ settled.record = Stringify(Credentials("alice", ""))
    /\ settled.logins = 0
    /\ stored = NoCreds

(***************************************************************************)
(* THE IMAGES OF THE DIAGNOSE PAGE, over files that can be told apart: the *)
(* page's image handlers alone.                                            *)
(***************************************************************************)
ImageFiles == {"a", "b"}
ImageBatches == UNION {[1..n -> ImageFiles] : n \in 0..MaxBatch}

ImagesNext ==
    \/ OpenPage("diagnose")
    \/ \E files \in ImageBatches : HandleImageSelect(files)
    \/ \E b \in 1..MaxReaders, k \in 1..MaxBatch : ReaderLoadEnd(b, k)
    \/ \E index \in 1..(MaxImages + MaxBatch) : RemoveImage(index)

SpecImages == Init /\ [][ImagesNext]_vars

\* No FileReader is reading.
LoadsFinished == dg_readers = <<>>

\* The two lists have the same length.
SameLength == Len(dg_imagePreviews) = Len(dg_selectedImages)

\* C30. Once all pending loads have finished, the preview list and the
\* selected-image list have the same length and the preview at each index is
\* the preview of the selected image at that index.
C30_PreviewsAligned ==
    LoadsFinished =>
        /\ SameLength
        /\ \A i \in 1..Len(dg_imagePreviews) :
              dg_imagePreviews[i] = DataUrl(dg_selectedImages[i])
====
